---- MODULE Spec2Model ----
(***************************************************************************)
(* Rail resonance transmitter: the telemetry pipeline.                     *)
(*                                                                         *)
(*   Sensor          (src/sensor.py)      bounded sample buffer, fed by a  *)
(*                                        background sampling thread       *)
(*   LTETransmitter  (src/transmitter.py) offline queue, drain loop and    *)
(*                                        publish                          *)
(*   send_ack        (src/communication.py) serial handshake, retries      *)
(*   main            (src/main.py)        the acquisition / send cycle     *)
(*   process_batch   (src/processor.py)   validation and feature vector,   *)
(*                                        format_csv, energy bands         *)
(*   DataCollector   (src/data_handling/collector.py) queue of readings    *)
(*   start_thread    (src/thread_handler.py) thread registry               *)
(*   I2CDevice       (src/peripherals/i2c_device.py) register conversion   *)
(*                                                                         *)
(* Each part has its own specification (SpecSensor, SpecTx, SpecLife,      *)
(* SpecStop, SpecAck, SpecMain, SpecProc, SpecSamples, SpecCsv,            *)
(* SpecTxStatus, SpecCollector, SpecThreads, SpecI2C, SpecBands,           *)
(* SpecConcurrent, SpecRawLog); the variables of the other parts stay as   *)
(* constructed.                                                            *)
(***************************************************************************)
EXTENDS Integers, Sequences, FiniteSets, TLC

\* ------------------------------------------------------------------ bounds

\* Largest deque maxlen (Sensor buffer_size) tried.
MaxCap == 2
\* Number of readings the sampling loop may produce (caps the clock).
MaxReadings == 3
\* Largest count passed to get_latest_readings.
MaxCount == 3

\* ------------------------------------------------------------------ helpers

Min(a, b) == IF a < b THEN a ELSE b

Max(a, b) == IF a > b THEN a ELSE b

\* The last n elements of s, oldest first (all of s when n >= Len(s)).
LastN(s, n) == SubSeq(s, Len(s) - Min(n, Len(s)) + 1, Len(s))

\* ------------------------------------------------------------------ Sensor

VARIABLES
    sensor_maxlen,    \* Sensor._buffer.maxlen (the buffer_size argument)
    sensor_buffer,    \* Sensor._buffer, oldest first
    sensor_lock,      \* Sensor._lock: "free" or the thread holding it
    sensor_running,   \* Sensor._running
    loop_pc,          \* position of the Sensor._loop thread
    loop_reading,     \* the reading _loop is about to append
    clock,            \* time.time(), advanced at every reading
    main_pc,          \* the main thread: start_collection, get_latest_readings, shutdown
    glr_count,        \* count argument of the current / last get_latest_readings
    glr_items,        \* items sliced from the buffer under the lock
    glr_ret,          \* value returned by the last get_latest_readings
    glr_seen,         \* history: the buffer as it was when the call copied it
    glr_returned,     \* history: some get_latest_readings call has returned
    health_pc,        \* the health monitor thread calling get_status
    gs_size,          \* get_status: size read under the lock
    gs_ret,           \* value returned by the last get_status
    inserted          \* history: every reading appended, in insertion order

sensorVars == <<sensor_maxlen, sensor_buffer, sensor_lock, sensor_running, loop_pc,
                loop_reading, clock, main_pc, glr_count, glr_items, glr_ret, glr_seen,
                glr_returned, health_pc, gs_size, gs_ret, inserted>>

VARIABLES
    max_buffer_size,  \* LTETransmitter.max_buffer_size (maxsize of the queue)
    tx_connected,     \* LTETransmitter._connected
    tx_buffer,        \* LTETransmitter._buffer, oldest first
    tx_stop,          \* LTETransmitter._stop
    net_loop,         \* the MQTT client's network loop runs (callbacks can arrive)
    client_ok,        \* the MQTT client accepts a publish (rc == MQTT_ERR_SUCCESS)
    app_pc,           \* the main thread: start, publish calls, stop
    pub_pc,           \* position inside publish
    pub_payload,      \* payload of the current / last publish call
    pub_connected,    \* what `if self._connected` read in that call
    pub_sent,         \* outcome of that call's immediate send: "none", "ok", "fail"
    pub_ret,          \* value returned by the last publish call
    pub_q0,           \* history: the queue when the publish call in progress started
    pub_deq,          \* history: the drain loop dequeued during the call in progress
    n_published,      \* number of publish calls made (payloads are numbered)
    drain_pc,         \* position of the _drain_buffer_loop thread
    drain_payload,    \* the payload the drain loop dequeued
    drain_handed,     \* history: payloads the drain loop handed to the transport, in order
    dropped,          \* history: payloads whose drain-loop send failed
    fail_pending      \* history: a drain-loop send failed and the loop has not slept since

txVars == <<max_buffer_size, tx_connected, tx_buffer, tx_stop, net_loop, client_ok,
            app_pc, pub_pc, pub_payload, pub_connected, pub_sent, pub_ret, pub_q0,
            pub_deq, n_published, drain_pc, drain_payload, drain_handed, dropped, fail_pending>>

VARIABLES
    lc_stop,          \* LTETransmitter._stop, as start() and stop() calls leave it
    lc_loops,         \* position of the drain thread created by the k-th start() call
    lc_connects,      \* number of connect_async calls made
    lc_starts,        \* number of start() calls made
    lc_stopped        \* history: stop() has been called

lifeVars == <<lc_stop, lc_loops, lc_connects, lc_starts, lc_stopped>>

VARIABLES
    ack_attempts,     \* send_ack: attempts (retry_attempts of the configuration)
    ack_attempt,      \* send_ack: the loop variable attempt (0 before the loop)
    ack_pc,           \* position inside send_ack
    ack_resp,         \* send_ack: resp, the bytes read in the current attempt
    ack_result,       \* how the call ended: "none", "True", "False" or "raised"
    ack_opens,        \* history: number of serial.Serial(...) calls
    ack_sleeps,       \* history: number of time.sleep(delay) calls
    ack_logged,       \* history: number of exceptions printed
    ack_hist          \* history: outcome of every attempt: "error", "reject", "accept"

ackVars == <<ack_attempts, ack_attempt, ack_pc, ack_resp, ack_result, ack_opens,
             ack_sleeps, ack_logged, ack_hist>>

VARIABLES
    ml_pc,            \* position of main's `while True` loop
    ml_len,           \* len(readings) of the current cycle
    ml_ack,           \* what send_ack returned in the current cycle ("none": not called)
    ml_pub_calls,     \* history: lte.publish calls made in the current cycle
    ml_enqueued,      \* history: payloads put on the offline queue in the current cycle
    ml_cycle          \* number of cycles completed

mainVars == <<ml_pc, ml_len, ml_ack, ml_pub_calls, ml_enqueued, ml_cycle>>

VARIABLES
    pb_readings,      \* process_batch: the readings argument (a list of dicts)
    pb_pc,            \* "call" before process_batch runs, "done" after
    pb_result         \* how process_batch ended: the mapping returned or the exception

procVars == <<pb_readings, pb_pc, pb_result>>

VARIABLES
    fc_features,      \* format_csv: the features argument
    fc_pc,            \* "call" before format_csv runs, "done" after
    fc_payload        \* the string format_csv returned

csvVars == <<fc_features, fc_pc, fc_payload>>

VARIABLES
    tx_status         \* what the last status getter of LTETransmitter returned

statusVars == <<tx_status>>

VARIABLES
    dc_maxsize,       \* DataCollector: buffer_size, the maxsize of its Queue
    dc_buffer,        \* DataCollector.buffer, oldest first
    dc_error,         \* DataCollector.collection_error
    dc_clock,         \* time.time() of the collector's last reading
    dc_pc,            \* "idle", or "returned" after a get_latest_readings call
    dc_count,         \* get_latest_readings: count
    dc_seen,          \* history: the buffer as the last get_latest_readings call found it
    dc_ret            \* what the last get_latest_readings call returned

collectorVars == <<dc_maxsize, dc_buffer, dc_error, dc_clock, dc_pc, dc_count, dc_seen,
                   dc_ret>>

VARIABLES
    threads,          \* thread_handler.threads: the names registered, each with its thread
    th_created,       \* every thread created so far, in order: name, target, args, calls
    th_said           \* what the last start_thread call printed ("none": no call yet)

threadVars == <<threads, th_created, th_said>>

VARIABLES
    i2c_data,         \* the 6 bytes of registers 0x32..0x37 as the bus returns them
    i2c_pc,           \* "idle", or "returned" after a read_data call
    i2c_ret           \* what read_data returned: x_g, y_g, z_g

i2cVars == <<i2c_data, i2c_pc, i2c_ret>>

VARIABLES
    be_n,             \* _compute_frequency: n = len(data)
    be_rate,          \* _compute_frequency: sampling_rate_hz
    be_mags,          \* _compute_frequency: mags, one magnitude per spectrum bin
    be_pc,            \* "idle", or "done" after the band loop
    be_feats          \* the energy_* entries of feats, by band

bandVars == <<be_n, be_rate, be_mags, be_pc, be_feats>>

VARIABLES
    cc_maxsize,       \* DataCollector with its two threads: maxsize of the Queue
    cc_buffer,        \* DataCollector.buffer
    cc_error,         \* DataCollector.collection_error
    cc_raised,        \* history: what the last failed insertion raised ("none": none failed)
    cc_clock,         \* time.time() of the last reading
    cc_reading,       \* _collection_loop: reading
    cl_pc,            \* position of the _collection_loop thread
    gl_pc,            \* position inside get_latest_readings
    gl_count,         \* get_latest_readings: count
    gl_temp_list,     \* get_latest_readings: temp_list
    gl_done,          \* get_latest_readings: number of temp_list entries put back
    gl_readings       \* get_latest_readings: readings

concurrentVars == <<cc_maxsize, cc_buffer, cc_error, cc_raised, cc_clock, cc_reading, cl_pc,
                    gl_pc, gl_count, gl_temp_list, gl_done, gl_readings>>

VARIABLES
    rl_buffer,        \* raw log model: Sensor._buffer
    rl_clock,         \* raw log model: time.time() of the last reading produced
    rl_log,           \* the rows of the raw CSV after its header, in order
    rl_cycles         \* number of main-loop cycles run

rawlogVars == <<rl_buffer, rl_clock, rl_log, rl_cycles>>

VARIABLES
    sl_running,       \* Sensor._running, as start_collection() and shutdown() leave it
    sl_loops,         \* position of the sampling thread created by the k-th successful start
    sl_starts,        \* number of sampling threads created
    sl_pc             \* the caller: "idle", or "join" inside shutdown()

sensorLifeVars == <<sl_running, sl_loops, sl_starts, sl_pc>>

\* Everything that is neither the Sensor's nor the transmitter's (SpecSensor, SpecTx).
restVars == <<lifeVars, ackVars, mainVars, procVars, csvVars, statusVars, collectorVars, threadVars,
              i2cVars, bandVars, concurrentVars, rawlogVars, sensorLifeVars>>

\* What the start() / stop() calls leave alone.
lifeRest == <<sensorVars, txVars, ackVars, mainVars, procVars, csvVars, statusVars, collectorVars,
              threadVars, i2cVars, bandVars, concurrentVars, rawlogVars, sensorLifeVars>>

\* What send_ack leaves alone.
ackRest == <<sensorVars, txVars, lifeVars, mainVars, procVars, csvVars, statusVars, collectorVars,
              threadVars, i2cVars, bandVars, concurrentVars, rawlogVars, sensorLifeVars>>

\* What the model of main's loop leaves alone (the calls it makes are modelled by
\* their results).
mainRest == <<sensorVars, txVars, lifeVars, ackVars, procVars, csvVars, statusVars, collectorVars,
              threadVars, i2cVars, bandVars, concurrentVars, rawlogVars, sensorLifeVars>>

\* What process_batch leaves alone.
procRest == <<sensorVars, txVars, lifeVars, ackVars, mainVars, csvVars, statusVars, collectorVars,
              threadVars, i2cVars, bandVars, concurrentVars, rawlogVars, sensorLifeVars>>

\* What format_csv leaves alone.
csvRest == <<sensorVars, txVars, lifeVars, ackVars, mainVars, procVars, statusVars, collectorVars,
              threadVars, i2cVars, bandVars, concurrentVars, rawlogVars, sensorLifeVars>>

statusRest == <<sensorVars, txVars, lifeVars, ackVars, mainVars, procVars, csvVars, collectorVars,
              threadVars, i2cVars, bandVars, concurrentVars, rawlogVars, sensorLifeVars>>

collectorRest == <<sensorVars, txVars, lifeVars, ackVars, mainVars, procVars, csvVars,
                   statusVars, threadVars, i2cVars, bandVars, concurrentVars, rawlogVars,
              sensorLifeVars>>

threadRest == <<sensorVars, txVars, lifeVars, ackVars, mainVars, procVars, csvVars,
                statusVars, collectorVars, i2cVars, bandVars, concurrentVars, rawlogVars,
              sensorLifeVars>>

i2cRest == <<sensorVars, txVars, lifeVars, ackVars, mainVars, procVars, csvVars,
             statusVars, collectorVars, threadVars, bandVars, concurrentVars, rawlogVars,
              sensorLifeVars>>

bandRest == <<sensorVars, txVars, lifeVars, ackVars, mainVars, procVars, csvVars,
              statusVars, collectorVars, threadVars, i2cVars, concurrentVars, rawlogVars,
              sensorLifeVars>>

concurrentRest == <<sensorVars, txVars, lifeVars, ackVars, mainVars, procVars, csvVars,
                    statusVars, collectorVars, threadVars, i2cVars, bandVars, rawlogVars,
              sensorLifeVars>>

rawlogRest == <<sensorVars, txVars, lifeVars, ackVars, mainVars, procVars, csvVars,
                statusVars, collectorVars, threadVars, i2cVars, bandVars, concurrentVars,
              sensorLifeVars>>

sensorLifeRest == <<sensorVars, txVars, lifeVars, ackVars, mainVars, procVars, csvVars,
                    statusVars, collectorVars, threadVars, i2cVars, bandVars, concurrentVars, rawlogVars>>

vars == <<sensorVars, txVars, restVars>>

\* Accelerations (x, y, z) in g that driver.read_acceleration may return.
Accels == {<<0, 0, 1>>, <<1, 0, 0>>}

sampling_rate_hz == 20

SensorReading(t, a) == [timestamp |-> t, x |-> a[1], y |-> a[2], z |-> a[3]]

NoReading == [timestamp |-> 0, x |-> 0, y |-> 0, z |-> 0]

\* SensorReading.to_dict
to_dict(r) == [k \in {"timestamp", "x", "y", "z"} |->
                 CASE k = "timestamp" -> r.timestamp
                   [] k = "x" -> r.x
                   [] k = "y" -> r.y
                   [] k = "z" -> r.z]

\* deque(maxlen=n).append(r): a full deque discards its oldest element; a deque of
\* maxlen 0 stays empty.
deque_append_unbounded(buf, maxlen, r) == Append(buf, r)

deque_append(buf, maxlen, r) ==
    IF maxlen = 0 THEN buf
    ELSE IF Len(buf) >= maxlen THEN Append(Tail(buf), r)
    ELSE Append(buf, r)

\* Python's s[start:] for a list s: a negative start counts from the end, and
\* out-of-range starts are clipped.
py_slice_from(s, start) ==
    LET n == Len(s)
        lo == IF start < 0 THEN Max(n + start, 0) ELSE Min(start, n)
    IN SubSeq(s, lo + 1, n)

\* list(self._buffer)[-count:]
latest_items(buf, count) == py_slice_from(buf, 0 - count)

SensorInit ==
    /\ sensor_maxlen \in 0..MaxCap
    /\ sensor_buffer = <<>>
    /\ sensor_lock = "free"
    /\ sensor_running = FALSE
    /\ loop_pc = "none"
    /\ loop_reading = NoReading
    /\ clock = 0
    /\ main_pc = "init"
    /\ glr_count = 0
    /\ glr_items = <<>>
    /\ glr_ret = <<>>
    /\ glr_seen = <<>>
    /\ glr_returned = FALSE
    /\ health_pc = "idle"
    /\ gs_size = 0
    /\ gs_ret = [running |-> FALSE, sampling_rate_hz |-> sampling_rate_hz, buffer_size |-> 0]
    /\ inserted = <<>>

\* Sensor.start_collection, called once by main: starts the _loop thread.
start_collection ==
    /\ main_pc = "init"
    /\ IF sensor_running
         THEN UNCHANGED <<sensor_running, loop_pc>>
         ELSE /\ sensor_running' = TRUE
              /\ loop_pc' = "while"
    /\ main_pc' = "run"
    /\ UNCHANGED <<sensor_maxlen, sensor_buffer, sensor_lock, loop_reading, clock,
                   glr_count, glr_items, glr_ret, glr_seen, glr_returned, health_pc,
                   gs_size, gs_ret, inserted>>
    /\ UNCHANGED <<txVars, restVars>>

\* _loop: `while self._running`
loop_while ==
    /\ loop_pc = "while"
    /\ loop_pc' = IF sensor_running THEN "read" ELSE "done"
    /\ UNCHANGED <<sensor_maxlen, sensor_buffer, sensor_lock, sensor_running,
                   loop_reading, clock, main_pc, glr_count, glr_items, glr_ret, glr_seen,
                   glr_returned, health_pc, gs_size, gs_ret, inserted>>
    /\ UNCHANGED <<txVars, restVars>>

\* _loop: driver.read_acceleration() returned a triple; the reading is stamped
\* with time.time().
loop_read_ok ==
    /\ loop_pc = "read"
    /\ clock < MaxReadings
    /\ \E a \in Accels :
         /\ clock' = clock + 1
         /\ loop_reading' = SensorReading(clock + 1, a)
    /\ loop_pc' = "acquire"
    /\ UNCHANGED <<sensor_maxlen, sensor_buffer, sensor_lock, sensor_running, main_pc,
                   glr_count, glr_items, glr_ret, glr_seen, glr_returned, health_pc,
                   gs_size, gs_ret, inserted>>
    /\ UNCHANGED <<txVars, restVars>>

\* A sampling loop that a failed read brings to its end.
loop_read_fail_fatal ==
    /\ loop_pc = "read"
    /\ loop_pc' = "done"
    /\ UNCHANGED <<sensor_maxlen, sensor_buffer, sensor_lock, sensor_running,
                   loop_reading, clock, main_pc, glr_count, glr_items, glr_ret, glr_seen,
                   glr_returned, health_pc, gs_size, gs_ret, inserted>>
    /\ UNCHANGED <<txVars, restVars>>

\* _loop: read_acceleration() returned None or raised: nothing is appended.
loop_read_fail ==
    /\ loop_pc = "read"
    /\ loop_pc' = "sleep"
    /\ UNCHANGED <<sensor_maxlen, sensor_buffer, sensor_lock, sensor_running,
                   loop_reading, clock, main_pc, glr_count, glr_items, glr_ret, glr_seen,
                   glr_returned, health_pc, gs_size, gs_ret, inserted>>
    /\ UNCHANGED <<txVars, restVars>>

\* A sampling loop that enters its section without waiting for the lock.
loop_acquire_barging ==
    /\ loop_pc = "acquire"
    /\ sensor_lock' = "loop"
    /\ loop_pc' = "append"
    /\ UNCHANGED <<sensor_maxlen, sensor_buffer, sensor_running, loop_reading, clock,
                   main_pc, glr_count, glr_items, glr_ret, glr_seen, glr_returned,
                   health_pc, gs_size, gs_ret, inserted>>
    /\ UNCHANGED <<txVars, restVars>>

\* _loop: `with self._lock` entered.
loop_acquire ==
    /\ loop_pc = "acquire"
    /\ sensor_lock = "free"
    /\ sensor_lock' = "loop"
    /\ loop_pc' = "append"
    /\ UNCHANGED <<sensor_maxlen, sensor_buffer, sensor_running, loop_reading, clock,
                   main_pc, glr_count, glr_items, glr_ret, glr_seen, glr_returned,
                   health_pc, gs_size, gs_ret, inserted>>
    /\ UNCHANGED <<txVars, restVars>>

\* _loop: self._buffer.append(reading), then the lock is released.
loop_append ==
    /\ loop_pc = "append"
    /\ sensor_buffer' = deque_append(sensor_buffer, sensor_maxlen, loop_reading)
    /\ inserted' = Append(inserted, loop_reading)
    /\ sensor_lock' = "free"
    /\ loop_pc' = "sleep"
    /\ UNCHANGED <<sensor_maxlen, sensor_running, loop_reading, clock, main_pc,
                   glr_count, glr_items, glr_ret, glr_seen, glr_returned, health_pc,
                   gs_size, gs_ret>>
    /\ UNCHANGED <<txVars, restVars>>

\* _loop: time.sleep(interval)
loop_sleep ==
    /\ loop_pc = "sleep"
    /\ loop_pc' = "while"
    /\ UNCHANGED <<sensor_maxlen, sensor_buffer, sensor_lock, sensor_running,
                   loop_reading, clock, main_pc, glr_count, glr_items, glr_ret, glr_seen,
                   glr_returned, health_pc, gs_size, gs_ret, inserted>>
    /\ UNCHANGED <<txVars, restVars>>

\* get_latest_readings(count): `with self._lock` entered.
glr_acquire ==
    /\ main_pc = "run"
    /\ sensor_lock = "free"
    /\ \E count \in 0..MaxCount : glr_count' = count
    /\ sensor_lock' = "main"
    /\ main_pc' = "glr_locked"
    /\ UNCHANGED <<sensor_maxlen, sensor_buffer, sensor_running, loop_pc, loop_reading,
                   clock, glr_items, glr_ret, glr_seen, glr_returned, health_pc, gs_size,
                   gs_ret, inserted>>
    /\ UNCHANGED <<txVars, restVars>>

\* A get_latest_readings that removes what it returns.
glr_copy_removing ==
    /\ main_pc = "glr_locked"
    /\ glr_seen' = sensor_buffer
    /\ glr_items' = latest_items(sensor_buffer, glr_count)
    /\ sensor_buffer' = SubSeq(sensor_buffer, 1,
                               Len(sensor_buffer) - Len(latest_items(sensor_buffer, glr_count)))
    /\ sensor_lock' = "free"
    /\ main_pc' = "glr_return"
    /\ UNCHANGED <<sensor_maxlen, sensor_running, loop_pc, loop_reading, clock,
                   glr_count, glr_ret, glr_returned, health_pc, gs_size, gs_ret, inserted>>
    /\ UNCHANGED <<txVars, restVars>>

\* get_latest_readings: under the lock, an empty buffer returns []; otherwise the
\* items are sliced from a copy of the buffer. The lock is released.
glr_copy ==
    /\ main_pc = "glr_locked"
    /\ glr_seen' = sensor_buffer
    /\ glr_items' = IF sensor_buffer = <<>> THEN <<>>
                    ELSE latest_items(sensor_buffer, glr_count)
    /\ sensor_lock' = "free"
    /\ main_pc' = "glr_return"
    /\ UNCHANGED <<sensor_maxlen, sensor_buffer, sensor_running, loop_pc, loop_reading,
                   clock, glr_count, glr_ret, glr_returned, health_pc, gs_size, gs_ret,
                   inserted>>
    /\ UNCHANGED <<txVars, restVars>>

\* get_latest_readings: return [r.to_dict() for r in items]
glr_return ==
    /\ main_pc = "glr_return"
    /\ glr_ret' = [i \in 1..Len(glr_items) |-> to_dict(glr_items[i])]
    /\ glr_items' = <<>>
    /\ glr_returned' = TRUE
    /\ main_pc' = "run"
    /\ UNCHANGED <<sensor_maxlen, sensor_buffer, sensor_lock, sensor_running, loop_pc,
                   loop_reading, clock, glr_count, glr_seen, health_pc, gs_size, gs_ret,
                   inserted>>
    /\ UNCHANGED <<txVars, restVars>>

\* get_status: `with self._lock` entered (health monitor thread).
gs_acquire ==
    /\ health_pc = "idle"
    /\ sensor_lock = "free"
    /\ sensor_lock' = "health"
    /\ health_pc' = "gs_locked"
    /\ UNCHANGED <<sensor_maxlen, sensor_buffer, sensor_running, loop_pc, loop_reading,
                   clock, main_pc, glr_count, glr_items, glr_ret, glr_seen, glr_returned,
                   gs_size, gs_ret, inserted>>
    /\ UNCHANGED <<txVars, restVars>>

\* get_status: size = len(self._buffer), then the lock is released.
gs_len ==
    /\ health_pc = "gs_locked"
    /\ gs_size' = Len(sensor_buffer)
    /\ sensor_lock' = "free"
    /\ health_pc' = "gs_return"
    /\ UNCHANGED <<sensor_maxlen, sensor_buffer, sensor_running, loop_pc, loop_reading,
                   clock, main_pc, glr_count, glr_items, glr_ret, glr_seen, glr_returned,
                   gs_ret, inserted>>
    /\ UNCHANGED <<txVars, restVars>>

\* get_status: the dict is built outside the lock.
gs_return ==
    /\ health_pc = "gs_return"
    /\ gs_ret' = [running |-> sensor_running, sampling_rate_hz |-> sampling_rate_hz,
                  buffer_size |-> gs_size]
    /\ health_pc' = "idle"
    /\ UNCHANGED <<sensor_maxlen, sensor_buffer, sensor_lock, sensor_running, loop_pc,
                   loop_reading, clock, main_pc, glr_count, glr_items, glr_ret, glr_seen,
                   glr_returned, gs_size, inserted>>
    /\ UNCHANGED <<txVars, restVars>>

\* Sensor.shutdown, called by main on exit: clears _running (the join is bounded
\* by a timeout and changes no state).
shutdown ==
    /\ main_pc = "run"
    /\ sensor_running' = FALSE
    /\ main_pc' = "halted"
    /\ UNCHANGED <<sensor_maxlen, sensor_buffer, sensor_lock, loop_pc, loop_reading,
                   clock, glr_count, glr_items, glr_ret, glr_seen, glr_returned,
                   health_pc, gs_size, gs_ret, inserted>>
    /\ UNCHANGED <<txVars, restVars>>

SensorNext ==
    \/ start_collection
    \/ loop_while
    \/ loop_read_ok
    \/ loop_read_fail
    \/ loop_acquire
    \/ loop_append
    \/ loop_sleep
    \/ glr_acquire
    \/ glr_copy
    \/ glr_return
    \/ gs_acquire
    \/ gs_len
    \/ gs_return
    \/ shutdown

\* ------------------------------------------------------------------ LTETransmitter

\* Largest max_buffer_size tried.
MaxQueue == 2
\* Number of publish calls main may make (payloads are numbered 1..MaxPublish).
MaxPublish == 3

\* Result codes the transport hands to _on_connect: 0 accepts, others refuse.
ConnectRcs == {0, 5}

\* queue.Queue(maxsize): a maxsize of 0 or less means no limit.
queue_full(q, maxsize) == 0 < maxsize /\ maxsize <= Len(q)

queue_empty(q) == Len(q) = 0

queue_qsize(q) == Len(q)

\* Queue.get_nowait on a non-empty queue: the item taken and the queue left.
queue_get_newest(q) == [item |-> q[Len(q)], rest |-> SubSeq(q, 1, Len(q) - 1)]

queue_get(q) == [item |-> Head(q), rest |-> Tail(q)]

\* _publish_now: True only when client.publish returned MQTT_ERR_SUCCESS; a raised
\* exception is caught and gives False.
publish_now(ok) == ok

TxInit ==
    /\ max_buffer_size \in 0..MaxQueue
    /\ tx_connected = FALSE
    /\ tx_buffer = <<>>
    /\ tx_stop = FALSE
    /\ net_loop = FALSE
    /\ client_ok \in BOOLEAN
    /\ app_pc = "init"
    /\ pub_pc = "idle"
    /\ pub_payload = 0
    /\ pub_connected = FALSE
    /\ pub_sent = "none"
    /\ pub_ret = FALSE
    /\ pub_q0 = <<>>
    /\ pub_deq = FALSE
    /\ n_published = 0
    /\ drain_pc = "none"
    /\ drain_payload = 0
    /\ drain_handed = <<>>
    /\ dropped = {}
    /\ fail_pending = FALSE

\* A connect notification that sets the flag whatever the result code.
on_connect_rc_any(rc) ==
    /\ net_loop
    /\ tx_connected' = TRUE
    /\ UNCHANGED <<max_buffer_size, tx_buffer, tx_stop, net_loop, client_ok, app_pc,
                   pub_pc, pub_payload, pub_connected, pub_sent, pub_ret, pub_q0, pub_deq,
                   n_published, drain_pc, drain_payload, drain_handed, dropped, fail_pending>>
    /\ UNCHANGED <<sensorVars, restVars>>

\* _on_connect(client, userdata, flags, rc): self._connected = (rc == 0)
on_connect_rc(rc) ==
    /\ net_loop
    /\ tx_connected' = (rc = 0)
    /\ UNCHANGED <<max_buffer_size, tx_buffer, tx_stop, net_loop, client_ok, app_pc,
                   pub_pc, pub_payload, pub_connected, pub_sent, pub_ret, pub_q0, pub_deq,
                   n_published, drain_pc, drain_payload, drain_handed, dropped, fail_pending>>
    /\ UNCHANGED <<sensorVars, restVars>>

\* _on_connect(rc), called from the client's network loop.
on_connect == \E rc \in ConnectRcs : on_connect_rc(rc)

\* _on_disconnect, called from the client's network loop.
on_disconnect ==
    /\ net_loop
    /\ tx_connected' = FALSE
    /\ UNCHANGED <<max_buffer_size, tx_buffer, tx_stop, net_loop, client_ok, app_pc,
                   pub_pc, pub_payload, pub_connected, pub_sent, pub_ret, pub_q0, pub_deq,
                   n_published, drain_pc, drain_payload, drain_handed, dropped, fail_pending>>
    /\ UNCHANGED <<sensorVars, restVars>>

\* The transport: the client starts or stops accepting publishes.
client_change ==
    /\ client_ok' = ~client_ok
    /\ UNCHANGED <<max_buffer_size, tx_connected, tx_buffer, tx_stop, net_loop, app_pc,
                   pub_pc, pub_payload, pub_connected, pub_sent, pub_ret, pub_q0, pub_deq,
                   n_published, drain_pc, drain_payload, drain_handed, dropped, fail_pending>>
    /\ UNCHANGED <<sensorVars, restVars>>

\* start(): connect_async, loop_start, _stop = False, drain thread started.
start ==
    /\ app_pc = "init"
    /\ net_loop' = TRUE
    /\ tx_stop' = FALSE
    /\ drain_pc' = "while"
    /\ app_pc' = "run"
    /\ UNCHANGED <<max_buffer_size, tx_connected, tx_buffer, client_ok, pub_pc,
                   pub_payload, pub_connected, pub_sent, pub_ret, pub_q0, pub_deq,
                   n_published, drain_payload, drain_handed, dropped, fail_pending>>
    /\ UNCHANGED <<sensorVars, restVars>>

\* start(): tls_set or connect_async raised; the exception is printed and neither
\* the network loop nor the drain thread is started.
start_error ==
    /\ app_pc = "init"
    /\ app_pc' = "run"
    /\ UNCHANGED <<max_buffer_size, tx_connected, tx_buffer, tx_stop, net_loop, client_ok,
                   pub_pc, pub_payload, pub_connected, pub_sent, pub_ret, pub_q0, pub_deq,
                   n_published, drain_pc, drain_payload, drain_handed, dropped, fail_pending>>
    /\ UNCHANGED <<sensorVars, restVars>>

\* stop(): _stop = True, then the join (bounded by its timeout).
stop_set ==
    /\ app_pc = "run"
    /\ pub_pc = "idle"
    /\ tx_stop' = TRUE
    /\ app_pc' = "stopping"
    /\ UNCHANGED <<max_buffer_size, tx_connected, tx_buffer, net_loop, client_ok, pub_pc,
                   pub_payload, pub_connected, pub_sent, pub_ret, pub_q0, pub_deq,
                   n_published, drain_pc, drain_payload, drain_handed, dropped, fail_pending>>
    /\ UNCHANGED <<sensorVars, restVars>>

\* A stop() that clears the connection flag itself.
stop_close_clearing ==
    /\ app_pc = "stopping"
    /\ net_loop' = FALSE
    /\ tx_connected' = FALSE
    /\ app_pc' = "stopped"
    /\ UNCHANGED <<max_buffer_size, tx_buffer, tx_stop, client_ok, pub_pc,
                   pub_payload, pub_connected, pub_sent, pub_ret, pub_q0, pub_deq,
                   n_published, drain_pc, drain_payload, drain_handed, dropped, fail_pending>>
    /\ UNCHANGED <<sensorVars, restVars>>

\* stop(): loop_stop and disconnect; no callback arrives afterwards.
stop_close ==
    /\ app_pc = "stopping"
    /\ net_loop' = FALSE
    /\ app_pc' = "stopped"
    /\ UNCHANGED <<max_buffer_size, tx_connected, tx_buffer, tx_stop, client_ok, pub_pc,
                   pub_payload, pub_connected, pub_sent, pub_ret, pub_q0, pub_deq,
                   n_published, drain_pc, drain_payload, drain_handed, dropped, fail_pending>>
    /\ UNCHANGED <<sensorVars, restVars>>

\* A drain loop that goes round whatever the flag says.
drain_while_deaf ==
    /\ drain_pc = "while"
    /\ drain_pc' = "connected"
    /\ UNCHANGED <<max_buffer_size, tx_connected, tx_buffer, tx_stop, net_loop, client_ok,
                   app_pc, pub_pc, pub_payload, pub_connected, pub_sent, pub_ret, pub_q0,
                   pub_deq, n_published, drain_payload, drain_handed, dropped, fail_pending>>
    /\ UNCHANGED <<sensorVars, restVars>>

\* _drain_buffer_loop: `while not self._stop`
drain_while ==
    /\ drain_pc = "while"
    /\ drain_pc' = IF tx_stop THEN "done" ELSE "connected"
    /\ UNCHANGED <<max_buffer_size, tx_connected, tx_buffer, tx_stop, net_loop, client_ok,
                   app_pc, pub_pc, pub_payload, pub_connected, pub_sent, pub_ret, pub_q0,
                   pub_deq, n_published, drain_payload, drain_handed, dropped, fail_pending>>
    /\ UNCHANGED <<sensorVars, restVars>>

\* _drain_buffer_loop: `if self._connected and ...`
drain_connected ==
    /\ drain_pc = "connected"
    /\ drain_pc' = IF tx_connected THEN "empty" ELSE "sleep"
    /\ UNCHANGED <<max_buffer_size, tx_connected, tx_buffer, tx_stop, net_loop, client_ok,
                   app_pc, pub_pc, pub_payload, pub_connected, pub_sent, pub_ret, pub_q0,
                   pub_deq, n_published, drain_payload, drain_handed, dropped, fail_pending>>
    /\ UNCHANGED <<sensorVars, restVars>>

\* _drain_buffer_loop: `... and not self._buffer.empty()`
drain_empty ==
    /\ drain_pc = "empty"
    /\ drain_pc' = IF queue_empty(tx_buffer) THEN "sleep" ELSE "get"
    /\ UNCHANGED <<max_buffer_size, tx_connected, tx_buffer, tx_stop, net_loop, client_ok,
                   app_pc, pub_pc, pub_payload, pub_connected, pub_sent, pub_ret, pub_q0,
                   pub_deq, n_published, drain_payload, drain_handed, dropped, fail_pending>>
    /\ UNCHANGED <<sensorVars, restVars>>

\* A drain loop that takes a payload off the queue and lets go of it.
drain_get_discarding ==
    /\ drain_pc = "get"
    /\ IF queue_empty(tx_buffer)
         THEN /\ drain_pc' = "sleep"
              /\ UNCHANGED <<tx_buffer, pub_deq>>
         ELSE /\ tx_buffer' = queue_get(tx_buffer).rest
              /\ pub_deq' = (pub_deq \/ pub_pc # "idle")
              /\ drain_pc' = "while"
    /\ UNCHANGED <<max_buffer_size, tx_connected, tx_stop, net_loop, client_ok, app_pc,
                   pub_pc, pub_payload, pub_connected, pub_sent, pub_ret, pub_q0,
                   n_published, drain_payload, drain_handed, dropped, fail_pending>>
    /\ UNCHANGED <<sensorVars, restVars>>

\* _drain_buffer_loop: payload = self._buffer.get_nowait(); on an empty queue it
\* raises, and the handler sleeps.
drain_get ==
    /\ drain_pc = "get"
    /\ IF queue_empty(tx_buffer)
         THEN /\ drain_pc' = "sleep"
              /\ UNCHANGED <<tx_buffer, drain_payload, pub_deq>>
         ELSE /\ drain_payload' = queue_get(tx_buffer).item
              /\ tx_buffer' = queue_get(tx_buffer).rest
              /\ pub_deq' = (pub_deq \/ pub_pc # "idle")
              /\ drain_pc' = "publish"
    /\ UNCHANGED <<max_buffer_size, tx_connected, tx_stop, net_loop, client_ok, app_pc,
                   pub_pc, pub_payload, pub_connected, pub_sent, pub_ret, pub_q0,
                   n_published, drain_handed, dropped, fail_pending>>
    /\ UNCHANGED <<sensorVars, restVars>>

\* A drain loop that puts a payload back when its send fails.
drain_publish_requeue ==
    /\ drain_pc = "publish"
    /\ drain_handed' = Append(drain_handed, drain_payload)
    /\ IF publish_now(client_ok)
         THEN UNCHANGED <<dropped, fail_pending, tx_buffer>>
         ELSE /\ dropped' = dropped \cup {drain_payload}
              /\ fail_pending' = TRUE
              /\ tx_buffer' = Append(tx_buffer, drain_payload)
    /\ drain_pc' = "while"
    /\ UNCHANGED <<max_buffer_size, tx_connected, tx_stop, net_loop, client_ok,
                   app_pc, pub_pc, pub_payload, pub_connected, pub_sent, pub_ret, pub_q0,
                   pub_deq, n_published, drain_payload>>
    /\ UNCHANGED <<sensorVars, restVars>>

\* _drain_buffer_loop: self._publish_now(payload); the result is not looked at and
\* the loop goes round again.
drain_publish ==
    /\ drain_pc = "publish"
    /\ drain_handed' = Append(drain_handed, drain_payload)
    /\ IF publish_now(client_ok)
         THEN UNCHANGED <<dropped, fail_pending>>
         ELSE /\ dropped' = dropped \cup {drain_payload}
              /\ fail_pending' = TRUE
    /\ drain_pc' = "while"
    /\ UNCHANGED <<max_buffer_size, tx_connected, tx_buffer, tx_stop, net_loop, client_ok,
                   app_pc, pub_pc, pub_payload, pub_connected, pub_sent, pub_ret, pub_q0,
                   pub_deq, n_published, drain_payload>>
    /\ UNCHANGED <<sensorVars, restVars>>

\* _drain_buffer_loop: time.sleep(retry_interval)
drain_sleep ==
    /\ drain_pc = "sleep"
    /\ fail_pending' = FALSE
    /\ drain_pc' = "while"
    /\ UNCHANGED <<max_buffer_size, tx_connected, tx_buffer, tx_stop, net_loop, client_ok,
                   app_pc, pub_pc, pub_payload, pub_connected, pub_sent, pub_ret, pub_q0,
                   pub_deq, n_published, drain_payload, drain_handed, dropped>>
    /\ UNCHANGED <<sensorVars, restVars>>

\* publish(payload) is called: `if self._connected`
pub_call ==
    /\ app_pc = "run"
    /\ pub_pc = "idle"
    /\ n_published < MaxPublish
    /\ n_published' = n_published + 1
    /\ pub_payload' = n_published + 1
    /\ pub_connected' = tx_connected
    /\ pub_sent' = "none"
    /\ pub_q0' = tx_buffer
    /\ pub_deq' = FALSE
    /\ pub_pc' = IF tx_connected THEN "send" ELSE "full"
    /\ UNCHANGED <<max_buffer_size, tx_connected, tx_buffer, tx_stop, net_loop, client_ok,
                   app_pc, pub_ret, drain_pc, drain_payload, drain_handed, dropped,
                   fail_pending>>
    /\ UNCHANGED <<sensorVars, restVars>>

\* A publish that reports success whatever the immediate send gave.
pub_send_unchecked ==
    /\ pub_pc = "send"
    /\ pub_sent' = IF publish_now(client_ok) THEN "ok" ELSE "fail"
    /\ pub_ret' = TRUE
    /\ pub_pc' = "idle"
    /\ pub_q0' = <<>>
    /\ pub_deq' = FALSE
    /\ UNCHANGED <<max_buffer_size, tx_connected, tx_buffer, tx_stop, net_loop, client_ok,
                   app_pc, pub_payload, pub_connected, n_published, drain_pc,
                   drain_payload, drain_handed, dropped, fail_pending>>
    /\ UNCHANGED <<sensorVars, restVars>>

\* publish: `if self._publish_now(payload): return True`
pub_send ==
    /\ pub_pc = "send"
    /\ IF publish_now(client_ok)
         THEN /\ pub_sent' = "ok"
              /\ pub_ret' = TRUE
              /\ pub_pc' = "idle"
              /\ pub_q0' = <<>>
              /\ pub_deq' = FALSE
         ELSE /\ pub_sent' = "fail"
              /\ pub_pc' = "full"
              /\ UNCHANGED <<pub_ret, pub_q0, pub_deq>>
    /\ UNCHANGED <<max_buffer_size, tx_connected, tx_buffer, tx_stop, net_loop, client_ok,
                   app_pc, pub_payload, pub_connected, n_published, drain_pc,
                   drain_payload, drain_handed, dropped, fail_pending>>
    /\ UNCHANGED <<sensorVars, restVars>>

\* A publish that never evicts: it goes straight to put_nowait.
pub_full_skipped ==
    /\ pub_pc = "full"
    /\ pub_pc' = "put"
    /\ UNCHANGED <<max_buffer_size, tx_connected, tx_buffer, tx_stop, net_loop, client_ok,
                   app_pc, pub_payload, pub_connected, pub_sent, pub_ret, pub_q0, pub_deq,
                   n_published, drain_pc, drain_payload, drain_handed, dropped, fail_pending>>
    /\ UNCHANGED <<sensorVars, restVars>>

\* publish: `if self._buffer.full()`
pub_full ==
    /\ pub_pc = "full"
    /\ pub_pc' = IF queue_full(tx_buffer, max_buffer_size) THEN "evict" ELSE "put"
    /\ UNCHANGED <<max_buffer_size, tx_connected, tx_buffer, tx_stop, net_loop, client_ok,
                   app_pc, pub_payload, pub_connected, pub_sent, pub_ret, pub_q0, pub_deq,
                   n_published, drain_pc, drain_payload, drain_handed, dropped, fail_pending>>
    /\ UNCHANGED <<sensorVars, restVars>>

\* A publish that evicts with a blocking get.
pub_evict_blocking ==
    /\ pub_pc = "evict"
    /\ ~queue_empty(tx_buffer)
    /\ tx_buffer' = queue_get(tx_buffer).rest
    /\ pub_pc' = "put"
    /\ UNCHANGED <<max_buffer_size, tx_connected, tx_stop, net_loop, client_ok,
                   app_pc, pub_payload, pub_connected, pub_sent, pub_ret, pub_q0, pub_deq,
                   n_published, drain_pc, drain_payload, drain_handed, dropped, fail_pending>>
    /\ UNCHANGED <<sensorVars, restVars>>

\* publish: self._buffer.get_nowait() evicts the oldest payload; on an empty queue
\* it raises and the exception is passed over.
pub_evict ==
    /\ pub_pc = "evict"
    /\ tx_buffer' = IF queue_empty(tx_buffer) THEN tx_buffer
                    ELSE queue_get(tx_buffer).rest
    /\ pub_pc' = "put"
    /\ UNCHANGED <<max_buffer_size, tx_connected, tx_stop, net_loop, client_ok,
                   app_pc, pub_payload, pub_connected, pub_sent, pub_ret, pub_q0, pub_deq,
                   n_published, drain_pc, drain_payload, drain_handed, dropped, fail_pending>>
    /\ UNCHANGED <<sensorVars, restVars>>

\* A publish that queues its payload in front of the older ones.
pub_put_front ==
    /\ pub_pc = "put"
    /\ tx_buffer' = IF queue_full(tx_buffer, max_buffer_size) THEN tx_buffer
                    ELSE <<pub_payload>> \o tx_buffer
    /\ pub_ret' = FALSE
    /\ pub_pc' = "idle"
    /\ pub_q0' = <<>>
    /\ pub_deq' = FALSE
    /\ UNCHANGED <<max_buffer_size, tx_connected, tx_stop, net_loop, client_ok, app_pc,
                   pub_payload, pub_connected, pub_sent, n_published, drain_pc,
                   drain_payload, drain_handed, dropped, fail_pending>>
    /\ UNCHANGED <<sensorVars, restVars>>

\* A publish that gives up the payload instead of queueing it.
pub_put_dropping ==
    /\ pub_pc = "put"
    /\ tx_buffer' = tx_buffer
    /\ pub_ret' = FALSE
    /\ pub_pc' = "idle"
    /\ pub_q0' = <<>>
    /\ pub_deq' = FALSE
    /\ UNCHANGED <<max_buffer_size, tx_connected, tx_stop, net_loop, client_ok, app_pc,
                   pub_payload, pub_connected, pub_sent, n_published, drain_pc,
                   drain_payload, drain_handed, dropped, fail_pending>>
    /\ UNCHANGED <<sensorVars, restVars>>

\* publish: self._buffer.put_nowait(payload), which raises on a full queue; either
\* way publish returns False.
pub_put ==
    /\ pub_pc = "put"
    /\ tx_buffer' = IF queue_full(tx_buffer, max_buffer_size) THEN tx_buffer
                    ELSE Append(tx_buffer, pub_payload)
    /\ pub_ret' = FALSE
    /\ pub_pc' = "idle"
    /\ pub_q0' = <<>>
    /\ pub_deq' = FALSE
    /\ UNCHANGED <<max_buffer_size, tx_connected, tx_stop, net_loop, client_ok, app_pc,
                   pub_payload, pub_connected, pub_sent, n_published, drain_pc,
                   drain_payload, drain_handed, dropped, fail_pending>>
    /\ UNCHANGED <<sensorVars, restVars>>

\* The steps of the drain loop thread.
DrainNext ==
    \/ drain_while
    \/ drain_connected
    \/ drain_empty
    \/ drain_get
    \/ drain_publish
    \/ drain_sleep

\* The steps of a publish call in progress.
PublishNext ==
    \/ pub_send
    \/ pub_full
    \/ pub_evict
    \/ pub_put

TxNext ==
    \/ on_connect
    \/ on_disconnect
    \/ client_change
    \/ start
    \/ start_error
    \/ stop_set
    \/ stop_close
    \/ pub_call
    \/ PublishNext
    \/ DrainNext

\* ------------------------------------------------------------------ start / stop

\* Number of start() calls tried.
MaxStarts == 3

\* LTETransmitter.__init__: _stop = False, no thread.
LifeInit ==
    /\ lc_stop = FALSE
    /\ lc_loops = [k \in 1..MaxStarts |-> "none"]
    /\ lc_connects = 0
    /\ lc_starts = 0
    /\ lc_stopped = FALSE

\* start(): connect_async, loop_start, _stop = False, a new drain thread is created
\* and started. Nothing in the method looks at an earlier call.
api_start ==
    /\ lc_starts < MaxStarts
    /\ lc_starts' = lc_starts + 1
    /\ lc_connects' = lc_connects + 1
    /\ lc_stop' = FALSE
    /\ lc_loops' = [lc_loops EXCEPT ![lc_starts + 1] = "while"]
    /\ UNCHANGED lc_stopped
    /\ UNCHANGED lifeRest

\* start(): tls_set or connect_async raised; printed, no thread created.
api_start_error ==
    /\ lc_starts < MaxStarts
    /\ lc_starts' = lc_starts + 1
    /\ UNCHANGED <<lc_stop, lc_loops, lc_connects, lc_stopped>>
    /\ UNCHANGED lifeRest

\* stop(): _stop = True; the join gives up after its timeout.
api_stop ==
    /\ lc_stop' = TRUE
    /\ lc_stopped' = TRUE
    /\ UNCHANGED <<lc_loops, lc_connects, lc_starts>>
    /\ UNCHANGED lifeRest

\* _drain_buffer_loop of thread k: `while not self._stop`
thread_while(k) ==
    /\ lc_loops[k] = "while"
    /\ lc_loops' = [lc_loops EXCEPT ![k] = IF lc_stop THEN "done" ELSE "body"]
    /\ UNCHANGED <<lc_stop, lc_connects, lc_starts, lc_stopped>>
    /\ UNCHANGED lifeRest

\* _drain_buffer_loop of thread k: one pass of the loop body (a send or a sleep).
thread_body(k) ==
    /\ lc_loops[k] = "body"
    /\ lc_loops' = [lc_loops EXCEPT ![k] = "while"]
    /\ UNCHANGED <<lc_stop, lc_connects, lc_starts, lc_stopped>>
    /\ UNCHANGED lifeRest

\* ------------------------------------------------------------------ send_ack

\* Largest retry_attempts tried.
MaxAttempts == 3

\* ser.read(4)
ReadSize == 4

\* Bytes the serial device may send.
Alphabet == {"A", "C", "K", "O", "k", " "}

\* What the device sends in answer to one probe: nothing (the read times out),
\* or up to one byte more than the read asks for.
Wires == UNION {[1..k -> Alphabet] : k \in 0..(ReadSize + 1)}

\* ser.read(size): at most the first size bytes of what arrived.
ser_read(wire, size) == SubSeq(wire, 1, Min(size, Len(wire)))

\* The bytes that bytes.strip() removes: space, \t, \n, \r, \x0b, \x0c
\* (a byte is a one-character string here; "\\x0b" stands for the byte 0x0b).
Whitespace == {" ", "\t", "\n", "\r", "\\x0b", "\f"}

AsciiLower == <<"a", "b", "c", "d", "e", "f", "g", "h", "i", "j", "k", "l", "m",
                "n", "o", "p", "q", "r", "s", "t", "u", "v", "w", "x", "y", "z">>

AsciiUpper == <<"A", "B", "C", "D", "E", "F", "G", "H", "I", "J", "K", "L", "M",
                "N", "O", "P", "Q", "R", "S", "T", "U", "V", "W", "X", "Y", "Z">>

\* A strip that removes trailing whitespace only.
RECURSIVE bytes_rstrip(_)
bytes_rstrip(b) ==
    IF b = <<>> THEN b
    ELSE IF b[Len(b)] \in Whitespace THEN bytes_rstrip(SubSeq(b, 1, Len(b) - 1))
    ELSE b

\* bytes.strip(): leading and trailing whitespace removed.
RECURSIVE bytes_strip(_)
bytes_strip(b) ==
    IF b = <<>> THEN b
    ELSE IF b[1] \in Whitespace THEN bytes_strip(Tail(b))
    ELSE IF b[Len(b)] \in Whitespace THEN bytes_strip(SubSeq(b, 1, Len(b) - 1))
    ELSE b

\* bytes.upper(): every ASCII lower-case letter replaced by its upper-case letter.
bytes_upper(b) ==
    [i \in 1..Len(b) |->
        IF \E j \in 1..26 : AsciiLower[j] = b[i]
        THEN AsciiUpper[CHOOSE j \in 1..26 : AsciiLower[j] = b[i]]
        ELSE b[i]]

\* `resp in (b"ACK", b"OK")`
Accepted == {<<"A", "C", "K">>, <<"O", "K">>}

\* send_ack is entered with attempts read from the configuration.
AckInit ==
    /\ ack_attempts \in 0..MaxAttempts
    /\ ack_attempt = 0
    /\ ack_pc = "for"
    /\ ack_resp = <<>>
    /\ ack_result = "none"
    /\ ack_opens = 0
    /\ ack_sleeps = 0
    /\ ack_logged = 0
    /\ ack_hist = <<>>

\* A loop that makes one attempt less.
ack_for_short ==
    /\ ack_pc = "for"
    /\ IF ack_attempt < ack_attempts - 1
       THEN /\ ack_attempt' = ack_attempt + 1
            /\ ack_pc' = "open"
            /\ UNCHANGED ack_result
       ELSE /\ ack_result' = "False"
            /\ ack_pc' = "done"
            /\ UNCHANGED ack_attempt
    /\ UNCHANGED <<ack_attempts, ack_resp, ack_opens, ack_sleeps, ack_logged, ack_hist>>
    /\ UNCHANGED ackRest

\* `for attempt in range(1, attempts + 1)`, and `return False` after the loop.
ack_for ==
    /\ ack_pc = "for"
    /\ IF ack_attempt < ack_attempts
       THEN /\ ack_attempt' = ack_attempt + 1
            /\ ack_pc' = "open"
            /\ UNCHANGED ack_result
       ELSE /\ ack_result' = "False"
            /\ ack_pc' = "done"
            /\ UNCHANGED ack_attempt
    /\ UNCHANGED <<ack_attempts, ack_resp, ack_opens, ack_sleeps, ack_logged, ack_hist>>
    /\ UNCHANGED ackRest

\* `with serial.Serial(port, baudrate, timeout=timeout) as ser`: the port opens.
ack_open ==
    /\ ack_pc = "open"
    /\ ack_opens' = ack_opens + 1
    /\ ack_pc' = "io"
    /\ UNCHANGED <<ack_attempts, ack_attempt, ack_resp, ack_result, ack_sleeps,
                   ack_logged, ack_hist>>
    /\ UNCHANGED ackRest

\* serial.Serial(...) raised: caught by `except Exception`, printed.
ack_open_error ==
    /\ ack_pc = "open"
    /\ ack_opens' = ack_opens + 1
    /\ ack_logged' = ack_logged + 1
    /\ ack_hist' = Append(ack_hist, "error")
    /\ ack_pc' = "sleep"
    /\ UNCHANGED <<ack_attempts, ack_attempt, ack_resp, ack_result, ack_sleeps>>
    /\ UNCHANGED ackRest

\* An exception of the serial channel that leaves send_ack.
ack_io_error_raised ==
    /\ ack_pc = "io"
    /\ ack_hist' = Append(ack_hist, "error")
    /\ ack_result' = "raised"
    /\ ack_pc' = "done"
    /\ UNCHANGED <<ack_attempts, ack_attempt, ack_resp, ack_opens, ack_sleeps, ack_logged>>
    /\ UNCHANGED ackRest

\* reset_input_buffer, write, flush or read raised: the port is closed by the
\* `with`, the exception is caught by `except Exception` and printed.
ack_io_error ==
    /\ ack_pc = "io"
    /\ ack_logged' = ack_logged + 1
    /\ ack_hist' = Append(ack_hist, "error")
    /\ ack_pc' = "sleep"
    /\ UNCHANGED <<ack_attempts, ack_attempt, ack_resp, ack_result, ack_opens, ack_sleeps>>
    /\ UNCHANGED ackRest

\* reset_input_buffer, write, flush, then `resp = ser.read(4)`.
ack_read ==
    /\ ack_pc = "io"
    /\ \E wire \in Wires : ack_resp' = ser_read(wire, ReadSize)
    /\ ack_pc' = "check"
    /\ UNCHANGED <<ack_attempts, ack_attempt, ack_result, ack_opens, ack_sleeps,
                   ack_logged, ack_hist>>
    /\ UNCHANGED ackRest

\* A check that sleeps before it returns True.
ack_check_late ==
    /\ ack_pc = "check"
    /\ IF bytes_upper(bytes_strip(ack_resp)) \in Accepted
       THEN /\ ack_hist' = Append(ack_hist, "accept")
            /\ ack_sleeps' = ack_sleeps + 1
            /\ ack_result' = "True"
            /\ ack_pc' = "done"
       ELSE /\ ack_hist' = Append(ack_hist, "reject")
            /\ ack_pc' = "sleep"
            /\ UNCHANGED <<ack_result, ack_sleeps>>
    /\ UNCHANGED <<ack_attempts, ack_attempt, ack_resp, ack_opens, ack_logged>>
    /\ UNCHANGED ackRest

\* `resp = resp.strip().upper()`, `if resp in (b"ACK", b"OK"): return True`;
\* otherwise the `with` block ends.
ack_check ==
    /\ ack_pc = "check"
    /\ IF bytes_upper(bytes_strip(ack_resp)) \in Accepted
       THEN /\ ack_hist' = Append(ack_hist, "accept")
            /\ ack_result' = "True"
            /\ ack_pc' = "done"
       ELSE /\ ack_hist' = Append(ack_hist, "reject")
            /\ ack_pc' = "sleep"
            /\ UNCHANGED ack_result
    /\ UNCHANGED <<ack_attempts, ack_attempt, ack_resp, ack_opens, ack_sleeps, ack_logged>>
    /\ UNCHANGED ackRest

\* `time.sleep(delay)` at the end of the loop body.
ack_sleep ==
    /\ ack_pc = "sleep"
    /\ ack_sleeps' = ack_sleeps + 1
    /\ ack_resp' = <<>>
    /\ ack_pc' = "for"
    /\ UNCHANGED <<ack_attempts, ack_attempt, ack_result, ack_opens, ack_logged, ack_hist>>
    /\ UNCHANGED ackRest

AckNext ==
    \/ ack_for
    \/ ack_open
    \/ ack_open_error
    \/ ack_io_error
    \/ ack_read
    \/ ack_check
    \/ ack_sleep

\* ------------------------------------------------------------------ main loop

\* Number of cycles of main's loop followed.
MaxCycles == 3

\* DATA_COLLECTION["buffer_size"]
DATA_COLLECTION_buffer_size == 10

\* main enters `while True`.
MainInit ==
    /\ ml_pc = "fetch"
    /\ ml_len = 0
    /\ ml_ack = "none"
    /\ ml_pub_calls = 0
    /\ ml_enqueued = 0
    /\ ml_cycle = 0

\* `readings = sensor.get_latest_readings(count=buffer_size)`: a new cycle.
ml_fetch ==
    /\ ml_pc = "fetch"
    /\ \E n \in 0..DATA_COLLECTION_buffer_size : ml_len' = n
    /\ ml_ack' = "none"
    /\ ml_pub_calls' = 0
    /\ ml_enqueued' = 0
    /\ ml_pc' = "log_raw"
    /\ UNCHANGED ml_cycle
    /\ UNCHANGED mainRest

\* The readings are appended to the raw CSV, then `if len(readings) >= buffer_size`.
ml_log_raw ==
    /\ ml_pc = "log_raw"
    /\ ml_pc' = IF ml_len >= DATA_COLLECTION_buffer_size THEN "process" ELSE "sleep"
    /\ UNCHANGED <<ml_len, ml_ack, ml_pub_calls, ml_enqueued, ml_cycle>>
    /\ UNCHANGED mainRest

\* Writing the raw CSV raised: the outer handler stops the components and re-raises.
ml_log_raw_error ==
    /\ ml_pc = "log_raw"
    /\ ml_len > 0
    /\ ml_pc' = "crashed"
    /\ UNCHANGED <<ml_len, ml_ack, ml_pub_calls, ml_enqueued, ml_cycle>>
    /\ UNCHANGED mainRest

\* process_batch returned the features; they are saved and format_csv makes the payload.
ml_process ==
    /\ ml_pc = "process"
    /\ ml_pc' = "ack"
    /\ UNCHANGED <<ml_len, ml_ack, ml_pub_calls, ml_enqueued, ml_cycle>>
    /\ UNCHANGED mainRest

\* A main loop in which a failed process_batch falls through to the outer handler.
ml_process_error_fatal ==
    /\ ml_pc = "process"
    /\ ml_pc' = "crashed"
    /\ UNCHANGED <<ml_len, ml_ack, ml_pub_calls, ml_enqueued, ml_cycle>>
    /\ UNCHANGED mainRest

\* process_batch, the processed CSV or format_csv raised: printed by the inner handler.
ml_process_error ==
    /\ ml_pc = "process"
    /\ ml_pc' = "sleep"
    /\ UNCHANGED <<ml_len, ml_ack, ml_pub_calls, ml_enqueued, ml_cycle>>
    /\ UNCHANGED mainRest

\* A cycle that goes on to publish whatever send_ack returned.
ml_send_ack_ignored ==
    /\ ml_pc = "ack"
    /\ \E r \in {"True", "False"} : ml_ack' = r
    /\ ml_pc' = "publish"
    /\ UNCHANGED <<ml_len, ml_pub_calls, ml_enqueued, ml_cycle>>
    /\ UNCHANGED mainRest

\* `if send_ack(port, baudrate, b"AT\r")`: publish on True, a message on False.
ml_send_ack ==
    /\ ml_pc = "ack"
    /\ \E r \in {"True", "False"} :
        /\ ml_ack' = r
        /\ ml_pc' = IF r = "True" THEN "publish" ELSE "sleep"
    /\ UNCHANGED <<ml_len, ml_pub_calls, ml_enqueued, ml_cycle>>
    /\ UNCHANGED mainRest

\* `lte.publish(payload)`: True when sent at once, False with the payload queued.
ml_publish ==
    /\ ml_pc = "publish"
    /\ ml_pub_calls' = ml_pub_calls + 1
    /\ \E sent \in BOOLEAN : ml_enqueued' = IF sent THEN ml_enqueued ELSE ml_enqueued + 1
    /\ ml_pc' = "sleep"
    /\ UNCHANGED <<ml_len, ml_ack, ml_cycle>>
    /\ UNCHANGED mainRest

\* `time.sleep(mqtt_send_freq)`, then the next cycle.
ml_sleep ==
    /\ ml_pc = "sleep"
    /\ ml_cycle < MaxCycles
    /\ ml_cycle' = ml_cycle + 1
    /\ ml_pc' = "fetch"
    /\ UNCHANGED <<ml_len, ml_ack, ml_pub_calls, ml_enqueued>>
    /\ UNCHANGED mainRest

MainNext ==
    \/ ml_fetch
    \/ ml_log_raw
    \/ ml_log_raw_error
    \/ ml_process
    \/ ml_process_error
    \/ ml_send_ack
    \/ ml_publish
    \/ ml_sleep

\* ------------------------------------------------------------------ process_batch

\* Largest batch tried.
MaxRows == 6
\* Largest timestamp in a batch.
MaxTs == 2
\* Largest batch of readings taken at successive instants.
MaxSamples == 10

REQUIRED_COLUMNS == <<"timestamp", "x", "y", "z">>

MIN_SAMPLES_REQUIRED == 5

\* The keys the dicts of a batch may have: any of the required ones, or the
\* sensor-style names that process_batch renames.
ColumnSets ==
    (SUBSET {"timestamp", "x", "y", "z"}) \cup {{"timestamp", "x_axis", "y_axis", "z_axis"}}

SetMin(S) == CHOOSE m \in S : \A e \in S : m <= e

SetMax(S) == CHOOSE m \in S : \A e \in S : m >= e

\* The exceptions process_batch can end with.
NoError == [type |-> "none", message |-> "", missing |-> <<>>]

\* df[c] for a column the frame does not have.
KeyError(c) == [type |-> "KeyError", message |-> c, missing |-> <<>>]

MissingColumns(m) == [type |-> "ValueError", message |-> "Missing columns", missing |-> m]

InsufficientData ==
    [type |-> "ValueError", message |-> "Insufficient data for processing", missing |-> <<>>]

EmptyDict == [k \in {} |-> 0]

Returned(v) == [outcome |-> "returned", error |-> NoError, value |-> v]

Raised(e) == [outcome |-> "raised", error |-> e, value |-> EmptyDict]

\* pd.DataFrame(readings): one row per dict, one column per key.
DataFrame(readings) == [columns |-> readings.columns, rows |-> readings.rows]

\* The name a column has after df.rename(columns={"x_axis": "x", ...}).
renamed(c) ==
    CASE c = "x_axis" -> "x"
      [] c = "y_axis" -> "y"
      [] c = "z_axis" -> "z"
      [] OTHER -> c

\* df.rename(columns={"x_axis": "x", "y_axis": "y", "z_axis": "z"})
rename(df) ==
    LET columns == {renamed(c) : c \in df.columns}
    IN  [columns |-> columns,
         rows |-> [i \in 1..Len(df.rows) |->
                     [k \in columns |->
                        df.rows[i][CHOOSE c \in df.columns : renamed(c) = k]]]]

\* The values of column c.
Column(df, c) == {df.rows[i][c] : i \in 1..Len(df.rows)}

\* A validation that looks at the columns only.
validate_columns_only(df) ==
    LET missing == SelectSeq(REQUIRED_COLUMNS, LAMBDA c : c \notin df.columns)
    IN  IF missing # <<>> THEN MissingColumns(missing) ELSE NoError

\* _validate: the exception it raises (NoError when it returns).
validate(df) ==
    LET missing == SelectSeq(REQUIRED_COLUMNS, LAMBDA c : c \notin df.columns)
    IN  IF missing # <<>> THEN MissingColumns(missing)
        ELSE IF Len(df.rows) < MIN_SAMPLES_REQUIRED THEN InsufficientData
        ELSE NoError

\* dict.update
update(feats, more) ==
    [k \in DOMAIN feats \cup DOMAIN more |-> IF k \in DOMAIN more THEN more[k] ELSE feats[k]]

AxisPrefixes == {<<"x", "X">>, <<"y", "Y">>, <<"z", "Z">>}

\* A value computed in floating point, kept as the expression that gives it.
Computed(name, col) == [feature |-> name, of |-> col]

\* The values of column col, row by row.
ColumnSeq(df, col) == [i \in 1..Len(df.rows) |-> df.rows[i][col]]

RECURSIVE SeqSum(_)
SeqSum(q) == IF q = <<>> THEN 0 ELSE q[1] + SeqSum(Tail(q))

Abs(v) == IF v < 0 THEN 0 - v ELSE v

\* The number num / den.
Ratio(num, den) == [num |-> num, den |-> den]

\* The number sqrt(radicand + eps * EPS), where EPS = 1e-12 (processor.py:14).
Root(radicand, eps) == [sqrt_of |-> radicand, plus_eps |-> eps]

\* series.mean()
series_mean(df, col) == Ratio(SeqSum(ColumnSeq(df, col)), Len(df.rows))

\* series.std(): the sample standard deviation (n - 1 in the denominator),
\* sqrt((n * sum(v^2) - sum(v)^2) / (n * (n - 1))).
series_std(df, col) ==
    LET v == ColumnSeq(df, col)
        n == Len(v)
        sq == [i \in 1..n |-> v[i] * v[i]]
    IN  Root(Ratio(n * SeqSum(sq) - SeqSum(v) * SeqSum(v), n * (n - 1)), 0)

\* An rms without the stabilising epsilon.
rms_plain(df, col) ==
    LET v == ColumnSeq(df, col)
    IN  Root(Ratio(SeqSum([i \in 1..Len(v) |-> v[i] * v[i]]), Len(v)), 0)

\* `rms = float(np.sqrt(np.mean(arr * arr) + EPS))`
rms(df, col) ==
    LET v == ColumnSeq(df, col)
    IN  Root(Ratio(SeqSum([i \in 1..Len(v) |-> v[i] * v[i]]), Len(v)), 1)

\* A Root value is greater than 0.
RootPositive(r) == r.sqrt_of.num > 0 \/ r.plus_eps > 0

\* `max(abs(series.max()), abs(series.min())) / rms if rms > 0 else 0.0`: the
\* quotient peak / over, or the number 0.
crest(df, col) ==
    IF RootPositive(rms(df, col))
    THEN [peak |-> Max(Abs(SetMax(Column(df, col))), Abs(SetMin(Column(df, col)))),
          over |-> rms(df, col)]
    ELSE [peak |-> 0, over |-> Root(Ratio(1, 1), 0)]

\* _compute_statistical: seven features per axis and sample_count. Values that are
\* not integers are kept exact, as quotients and square roots.
compute_statistical(df) ==
    LET stat(name, col) ==
            CASE name = "mean" -> series_mean(df, col)
              [] name = "std" -> series_std(df, col)
              [] name = "min" -> SetMin(Column(df, col))
              [] name = "max" -> SetMax(Column(df, col))
              [] name = "rms" -> rms(df, col)
              [] name = "p2p" -> SetMax(Column(df, col)) - SetMin(Column(df, col))
              [] name = "crest" -> crest(df, col)
        names == {"mean", "std", "min", "max", "rms", "p2p", "crest"}
        keyed == {<<name \o "_" \o ap[2], name, ap[1]>> : name \in names, ap \in AxisPrefixes}
        keys == {e[1] : e \in keyed} \cup {"sample_count"}
    IN  [k \in keys |->
            IF k = "sample_count" THEN Len(df.rows)
            ELSE LET e == CHOOSE e \in keyed : e[1] = k IN stat(e[2], e[3])]

\* _compute_frequency: six spectral features per axis (the frame has 2 rows or more).
compute_frequency(df, rate) ==
    LET shapes == {<<"fft_", "_max">>, <<"freq_", "_dominant">>, <<"freq_", "_mean">>,
                   <<"energy_", "_0_10Hz">>, <<"energy_", "_10_50Hz">>,
                   <<"energy_", "_50_100Hz">>}
        keyed == IF Len(df.rows) < 2 THEN {}
                 ELSE {<<sh[1] \o ap[2] \o sh[2], sh[1] \o sh[2], ap[1]>> :
                          sh \in shapes, ap \in AxisPrefixes}
    IN  [k \in {e[1] : e \in keyed} |->
            LET e == CHOOSE e \in keyed : e[1] = k IN Computed(e[2], e[3])]

\* Start and end taken from the first and the last row.
timestamp_features_by_position(df) ==
    [k \in {"timestamp_start", "timestamp_end", "duration"} |->
        CASE k = "timestamp_start" -> df.rows[1].timestamp
          [] k = "timestamp_end" -> df.rows[Len(df.rows)].timestamp
          [] k = "duration" -> df.rows[Len(df.rows)].timestamp - df.rows[1].timestamp]

\* feats["timestamp_start"], feats["timestamp_end"], feats["duration"]
timestamp_features(df) ==
    [k \in {"timestamp_start", "timestamp_end", "duration"} |->
        CASE k = "timestamp_start" -> SetMin(Column(df, "timestamp"))
          [] k = "timestamp_end" -> SetMax(Column(df, "timestamp"))
          [] k = "duration" -> SetMax(Column(df, "timestamp")) - SetMin(Column(df, "timestamp"))]

\* process_batch: the mapping it returns or the exception it raises.
process_batch(readings, rate) ==
    IF readings.rows = <<>> THEN Returned(EmptyDict)
    ELSE LET df == rename(DataFrame(readings))
             absent == SelectSeq(<<"x", "y", "z">>, LAMBDA c : c \notin df.columns)
         IN  IF absent # <<>> THEN Raised(KeyError(absent[1]))
             ELSE IF validate(df) # NoError THEN Raised(validate(df))
             ELSE Returned(update(update(update(EmptyDict, compute_statistical(df)),
                                         compute_frequency(df, rate)),
                                  timestamp_features(df)))

\* The batch handed to process_batch: up to MaxRows dicts with the same keys.
ProcInit ==
    /\ \E n \in 0..MaxRows, a \in Accels :
         \E ts \in [1..n -> 1..MaxTs], cols \in ColumnSets :
            /\ n = 0 => cols = {}
            /\ pb_readings =
                 [columns |-> cols,
                  rows |-> [i \in 1..n |->
                              [c \in cols |->
                                 CASE c = "timestamp" -> ts[i]
                                   [] c \in {"x", "x_axis"} -> a[1]
                                   [] c \in {"y", "y_axis"} -> a[2]
                                   [] c \in {"z", "z_axis"} -> a[3]]]]
    /\ pb_pc = "call"
    /\ pb_result = Returned(EmptyDict)

\* A batch as the sensor produces it: up to MaxSamples complete readings stamped
\* 1, 2, ..., with x either 0 or 1 g and y = z = 0.
SamplesInit ==
    /\ \E n \in 0..MaxSamples :
         \E xs \in [1..n -> {0, 1}] :
            pb_readings =
                [columns |-> IF n = 0 THEN {} ELSE {"timestamp", "x", "y", "z"},
                 rows |-> [i \in 1..n |-> to_dict(SensorReading(i, <<xs[i], 0, 0>>))]]
    /\ pb_pc = "call"
    /\ pb_result = Returned(EmptyDict)

\* process_batch(readings, sampling_rate_hz) runs.
pb_call ==
    /\ pb_pc = "call"
    /\ pb_result' = process_batch(pb_readings, sampling_rate_hz)
    /\ pb_pc' = "done"
    /\ UNCHANGED pb_readings
    /\ UNCHANGED procRest

ProcNext == pb_call

\* The batch of a component that is not under study.
ProcParked ==
    /\ pb_readings = [columns |-> {}, rows |-> <<>>]
    /\ pb_pc = "call"
    /\ pb_result = Returned(EmptyDict)

\* ------------------------------------------------------------------ format_csv

\* Largest number of features in a vector handed to format_csv.
MaxKeys == 3
\* Largest magnitude of a feature value.
MaxVal == 12

\* A Python str is a sequence of one-character strings here.
\* Feature names, as _compute_statistical builds them.
FeatureNames ==
    {<<"m", "a", "x", "_", "X">>, <<"m", "a", "x", "_", "Y">>, <<"m", "i", "n", "_", "X">>,
     <<"p", "2", "p", "_", "X">>, <<"r", "m", "s", "_", "X">>}

\* Feature values: an int n (sample_count), or a float given in tenths.
PyInt(n) == [kind |-> "int", n |-> n]

PyFloat(tenths) == [kind |-> "float", n |-> tenths]

FeatureValues ==
    {PyInt(n) : n \in {0 - MaxVal, 0, 7, MaxVal}}
        \cup {PyFloat(t) : t \in {0 - (10 * MaxVal + 5), 0 - 5, 0, 10, 10 * MaxVal + 5}}

\* The characters of the payloads in the order of their code points.
CodeOrder ==
    <<",", "-", ".", "0", "1", "2", "3", "4", "5", "6", "7", "8", "9", "X", "Y", "Z", "_">>
        \o AsciiLower

CodePoint(c) == CHOOSE i \in 1..Len(CodeOrder) : CodeOrder[i] = c

\* a < b for Python strings: the first differing character decides, a proper prefix
\* is smaller.
RECURSIVE StrLess(_, _)
StrLess(a, b) ==
    IF b = <<>> THEN FALSE
    ELSE IF a = <<>> THEN TRUE
    ELSE IF a[1] = b[1] THEN StrLess(Tail(a), Tail(b))
    ELSE CodePoint(a[1]) < CodePoint(b[1])

\* sorted(strings), for a set of distinct strings.
RECURSIVE sorted(_)
sorted(S) ==
    IF S = {} THEN <<>>
    ELSE LET least == CHOOSE a \in S : \A b \in S \ {a} : StrLess(a, b)
         IN  <<least>> \o sorted(S \ {least})

\* sep.join(strings)
RECURSIVE join(_, _)
join(sep, strings) ==
    IF strings = <<>> THEN <<>>
    ELSE IF Len(strings) = 1 THEN strings[1]
    ELSE strings[1] \o <<sep>> \o join(sep, Tail(strings))

Digits == <<"0", "1", "2", "3", "4", "5", "6", "7", "8", "9">>

\* str(n) for an int n >= 0.
RECURSIVE str_nat(_)
str_nat(n) == IF n < 10 THEN <<Digits[n + 1]>> ELSE str_nat(n \div 10) \o <<Digits[(n % 10) + 1]>>

\* str(value): an int as its digits, a float with its fractional digit.
str(value) ==
    LET sign == IF value.n < 0 THEN <<"-">> ELSE <<>>
        m == Abs(value.n)
    IN  IF value.kind = "int" THEN sign \o str_nat(m)
        ELSE sign \o str_nat(m \div 10) \o <<".">> \o <<Digits[(m % 10) + 1]>>

\* A format_csv whose row lists the values in the opposite order of the header.
format_csv_row_reversed(features) ==
    IF features = EmptyDict THEN <<>>
    ELSE LET keys == sorted(DOMAIN features)
             header == join(",", keys)
             row == join(",", [i \in 1..Len(keys) |-> str(features[keys[Len(keys) + 1 - i]])])
         IN  header \o <<"\n">> \o row

\* format_csv
format_csv(features) ==
    IF features = EmptyDict THEN <<>>
    ELSE LET keys == sorted(DOMAIN features)
             header == join(",", keys)
             row == join(",", [i \in 1..Len(keys) |-> str(features[keys[i]])])
         IN  header \o <<"\n">> \o row

\* The features handed to format_csv: up to MaxKeys named values, or none.
CsvInit ==
    /\ \E names \in SUBSET FeatureNames :
         /\ Cardinality(names) <= MaxKeys
         /\ fc_features \in [names -> FeatureValues]
    /\ fc_pc = "call"
    /\ fc_payload = <<>>

\* format_csv(features) runs.
fc_call ==
    /\ fc_pc = "call"
    /\ fc_payload' = format_csv(fc_features)
    /\ fc_pc' = "done"
    /\ UNCHANGED fc_features
    /\ UNCHANGED csvRest

CsvNext == fc_call

\* format_csv not called.
CsvParked ==
    /\ fc_features = EmptyDict
    /\ fc_pc = "call"
    /\ fc_payload = <<>>

\* ------------------------------------------------------------------ status getters

Broker == "broker:port"
Topic == "topic"

StatusParked == tx_status = <<>>

\* get_connection_status: a dict built from the flag, the address, the topic and
\* the queue's size; nothing is assigned.
get_connection_status ==
    /\ tx_status' = [connected |-> tx_connected, broker |-> Broker, topic |-> Topic,
                     buffer_size |-> queue_qsize(tx_buffer)]
    /\ UNCHANGED <<sensorVars, txVars, statusRest>>

\* get_buffer_status: a dict built from the queue's size and its capacity.
get_buffer_status ==
    /\ tx_status' = [buffer_size |-> queue_qsize(tx_buffer),
                     max_buffer_size |-> max_buffer_size]
    /\ UNCHANGED <<sensorVars, txVars, statusRest>>

GetterNext ==
    \/ get_connection_status
    \/ get_buffer_status

TxStatusNext == TxNext \/ GetterNext

\* ------------------------------------------------------------------ DataCollector

\* Largest capacity of the collector's queue.
MaxHeld == 3

CollectorInit ==
    /\ dc_maxsize \in 1..MaxHeld
    /\ dc_buffer = <<>>
    /\ dc_error = FALSE
    /\ dc_clock = 0
    /\ dc_pc = "idle"
    /\ dc_count = 0
    /\ dc_seen = <<>>
    /\ dc_ret = <<>>

CollectorParked == CollectorInit /\ dc_maxsize = MaxHeld

\* _collection_loop, one pass with a reading: the oldest goes when the queue is
\* full, the stamped reading is put at the tail.
dc_collect ==
    /\ dc_clock < MaxReadings
    /\ \E data \in Accels :
         LET reading == SensorReading(dc_clock + 1, data)
             kept == IF queue_full(dc_buffer, dc_maxsize) THEN queue_get(dc_buffer).rest
                     ELSE dc_buffer
         IN  dc_buffer' = Append(kept, reading)
    /\ dc_clock' = dc_clock + 1
    /\ UNCHANGED <<dc_maxsize, dc_error, dc_pc, dc_count, dc_seen, dc_ret>>
    /\ UNCHANGED collectorRest

\* _collection_loop, one pass in which read_acceleration() returned None or raised.
dc_collect_error ==
    /\ dc_error' = TRUE
    /\ UNCHANGED <<dc_maxsize, dc_buffer, dc_clock, dc_pc, dc_count, dc_seen, dc_ret>>
    /\ UNCHANGED collectorRest

\* get_latest_readings: `while not self.buffer.empty() and len(temp_list) < count:
\* temp_list.append(self.buffer.get())`
RECURSIVE take_front(_, _, _)
take_front(buffer, temp_list, count) ==
    IF ~queue_empty(buffer) /\ Len(temp_list) < count
      THEN take_front(queue_get(buffer).rest, Append(temp_list, queue_get(buffer).item),
                      count)
      ELSE [buffer |-> buffer, temp_list |-> temp_list]

\* get_latest_readings: `for reading in temp_list: self.buffer.put(reading);
\* readings.append(reading.to_dict())`
RECURSIVE put_back(_, _, _)
put_back(buffer, temp_list, readings) ==
    IF temp_list = <<>> THEN [buffer |-> buffer, readings |-> readings]
    ELSE put_back(Append(buffer, Head(temp_list)), Tail(temp_list),
                  Append(readings, to_dict(Head(temp_list))))

\* DataCollector.get_latest_readings(count), with no other thread at the queue.
dc_get_latest_readings ==
    /\ \E count \in 0..MaxCount :
         LET taken == take_front(dc_buffer, <<>>, count)
             back == put_back(taken.buffer, taken.temp_list, <<>>)
         IN  /\ dc_count' = count
             /\ dc_buffer' = back.buffer
             /\ dc_ret' = back.readings
    /\ dc_seen' = dc_buffer
    /\ dc_pc' = "returned"
    /\ UNCHANGED <<dc_maxsize, dc_error, dc_clock>>
    /\ UNCHANGED collectorRest

CollectorNext ==
    \/ dc_collect
    \/ dc_collect_error
    \/ dc_get_latest_readings

\* ------------------------------------------------------------------ thread_handler

\* Largest number of threads created.
MaxThreads == 2

ThreadNames == {"dummy", "sensor"}

Functions == {"dummy_task", "other_task"}

Arguments == {<<0>>, <<1, 2>>}

ThreadsInit ==
    /\ threads = {}
    /\ th_created = <<>>
    /\ th_said = "none"

ThreadsParked == ThreadsInit

Registered == {entry[1] : entry \in threads}

\* start_thread with a name that is in `threads`: the message, and nothing else.
start_thread_registered ==
    /\ \E thread_name \in ThreadNames : thread_name \in Registered
    /\ th_said' = "already running"
    /\ UNCHANGED <<threads, th_created>>
    /\ UNCHANGED threadRest

\* start_thread: threading.Thread(...) or start() raised; the handler prints.
start_thread_error ==
    /\ \E thread_name \in ThreadNames : thread_name \notin Registered
    /\ th_said' = "failed"
    /\ UNCHANGED <<threads, th_created>>
    /\ UNCHANGED threadRest

\* A start_thread that registers a thread it never starts.
start_thread_unstarted ==
    /\ Len(th_created) < MaxThreads
    /\ \E thread_name \in ThreadNames, function \in Functions, arguments \in Arguments :
         /\ thread_name \notin Registered
         /\ th_created' = Append(th_created,
                                 [name |-> thread_name, target |-> function,
                                  args |-> arguments, started |-> FALSE, calls |-> <<>>])
         /\ threads' = threads \cup {<<thread_name, Len(th_created) + 1>>}
    /\ th_said' = "started"
    /\ UNCHANGED threadRest

\* start_thread with a name not in `threads`: a daemon Thread with the target and
\* the args is created and started, then registered under the name.
start_thread ==
    /\ Len(th_created) < MaxThreads
    /\ \E thread_name \in ThreadNames, function \in Functions, arguments \in Arguments :
         /\ thread_name \notin Registered
         /\ th_created' = Append(th_created,
                                 [name |-> thread_name, target |-> function,
                                  args |-> arguments, started |-> TRUE, calls |-> <<>>])
         /\ threads' = threads \cup {<<thread_name, Len(th_created) + 1>>}
    /\ th_said' = "started"
    /\ UNCHANGED threadRest

\* Thread.run of the i-th thread created: self._target(*self._args), once.
thread_run(i) ==
    /\ i \in 1..Len(th_created)
    /\ th_created[i].started
    /\ th_created[i].calls = <<>>
    /\ th_created' = [th_created EXCEPT ![i].calls =
                         <<[function |-> th_created[i].target, args |-> th_created[i].args]>>]
    /\ UNCHANGED <<threads, th_said>>
    /\ UNCHANGED threadRest

\* stop_all_threads: the registry is emptied; the threads are left to run.
stop_all_threads ==
    /\ threads' = {}
    /\ UNCHANGED <<th_created, th_said>>
    /\ UNCHANGED threadRest

ThreadsNext ==
    \/ start_thread_registered
    \/ start_thread_error
    \/ start_thread
    \/ \E i \in 1..MaxThreads : thread_run(i)
    \/ stop_all_threads

\* ------------------------------------------------------------------ I2CDevice

\* Register bytes tried: the low ones, the 10 g and 16 g high bytes, the sign bit,
\* the lowest 13-bit high byte and the highest byte.
ByteValues == {0, 10, 16, 128, 240, 255}

BlockLength == 6

LSB_PER_G == 256

I2CInit ==
    /\ i2c_data \in [1..BlockLength -> ByteValues]
    /\ i2c_pc = "idle"
    /\ i2c_ret = <<>>

I2CParked ==
    /\ i2c_data = [i \in 1..BlockLength |-> 0]
    /\ i2c_pc = "idle"
    /\ i2c_ret = <<>>

\* An int.from_bytes that takes the two bytes as unsigned.
int_from_bytes_unsigned(b) == b[1] + 256 * b[2]

\* int.from_bytes(b, byteorder='little', signed=True) of two bytes.
int_from_bytes(b) ==
    LET u == b[1] + 256 * b[2]
    IN  IF u >= 32768 THEN u - 65536 ELSE u

\* read_data: the three axes of a block, each raw / 256.0.
read_data_values(data) ==
    LET x == int_from_bytes(SubSeq(data, 1, 2))
        y == int_from_bytes(SubSeq(data, 3, 4))
        z == int_from_bytes(SubSeq(data, 5, 6))
    IN  <<Ratio(x, LSB_PER_G), Ratio(y, LSB_PER_G), Ratio(z, LSB_PER_G)>>

\* read_data: the block was read and converted.
read_data ==
    /\ i2c_pc = "idle"
    /\ i2c_ret' = read_data_values(i2c_data)
    /\ i2c_pc' = "returned"
    /\ UNCHANGED i2c_data
    /\ UNCHANGED i2cRest

\* read_data: read_i2c_block_data raised; zeros are returned.
read_data_error ==
    /\ i2c_pc = "idle"
    /\ i2c_ret' = <<Ratio(0, 1), Ratio(0, 1), Ratio(0, 1)>>
    /\ i2c_pc' = "failed"
    /\ UNCHANGED i2c_data
    /\ UNCHANGED i2cRest

I2CNext ==
    \/ read_data
    \/ read_data_error

\* ------------------------------------------------------------------ energy bands

\* Largest number of samples in the batch.
MaxN == 8
\* Largest magnitude of a spectrum bin.
MaxMag == 2

SamplingRates == {20, 80, 400}

\* The (low, high) pairs of the band loop.
Bands == <<[low |-> 0, high |-> 10], [low |-> 10, high |-> 50], [low |-> 50, high |-> 100]>>

\* np.fft.rfftfreq(n, d=1.0 / rate): bin i (counted from 1) is at (i - 1) * rate / n,
\* for n // 2 + 1 bins.
rfftfreq(n, rate) == [i \in 1..((n \div 2) + 1) |-> Ratio((i - 1) * rate, n)]

\* f >= v and f < v for a quotient f with a positive denominator.
AtLeast(f, v) == f.num >= v * f.den

Below(f, v) == f.num < v * f.den

\* A band mask that takes the upper edge in.
band_mask_closed(freqs, low, high) ==
    [i \in 1..Len(freqs) |-> AtLeast(freqs[i], low) /\ freqs[i].num <= high * freqs[i].den]

\* mask = (freqs >= low) & (freqs < high)
band_mask(freqs, low, high) ==
    [i \in 1..Len(freqs) |-> AtLeast(freqs[i], low) /\ Below(freqs[i], high)]

\* mags[mask]: the entries of mags where the mask is set, in order.
RECURSIVE masked(_, _)
masked(mags, mask) ==
    IF mags = <<>> THEN <<>>
    ELSE (IF Head(mask) THEN <<Head(mags)>> ELSE <<>>) \o masked(Tail(mags), Tail(mask))

\* float(np.sum((mags[mask]) ** 2))
band_energy(freqs, mags, low, high) ==
    LET m == masked(mags, band_mask(freqs, low, high))
    IN  SeqSum([i \in 1..Len(m) |-> m[i] * m[i]])

BandsInit ==
    /\ be_n \in 2..MaxN
    /\ be_rate \in SamplingRates
    /\ be_mags \in [1..((be_n \div 2) + 1) -> 0..MaxMag]
    /\ be_pc = "idle"
    /\ be_feats = <<>>

BandsParked ==
    /\ be_n = 2
    /\ be_rate = sampling_rate_hz
    /\ be_mags = <<0, 0>>
    /\ be_pc = "idle"
    /\ be_feats = <<>>

\* _compute_frequency: the loop over the three bands, for one axis.
band_loop ==
    /\ be_pc = "idle"
    /\ be_feats' = [b \in 1..Len(Bands) |->
                      band_energy(rfftfreq(be_n, be_rate), be_mags,
                                  Bands[b].low, Bands[b].high)]
    /\ be_pc' = "done"
    /\ UNCHANGED <<be_n, be_rate, be_mags>>
    /\ UNCHANGED bandRest

BandsNext == band_loop

\* ------------------------------------------------------------------ DataCollector, two threads

ConcurrentInit ==
    /\ cc_maxsize \in 1..MaxHeld
    /\ cc_buffer = <<>>
    /\ cc_error = FALSE
    /\ cc_raised = "none"
    /\ cc_clock = 0
    /\ cc_reading = NoReading
    /\ cl_pc = "read"
    /\ gl_pc = "idle"
    /\ gl_count = 0
    /\ gl_temp_list = <<>>
    /\ gl_done = 0
    /\ gl_readings = <<>>

ConcurrentParked == ConcurrentInit /\ cc_maxsize = MaxHeld

\* _collection_loop: read_acceleration() returned data; the reading is stamped.
cl_read ==
    /\ cl_pc = "read"
    /\ cc_clock < MaxReadings
    /\ cc_clock' = cc_clock + 1
    /\ cc_reading' = SensorReading(cc_clock + 1, <<0, 0, 1>>)
    /\ cl_pc' = "full"
    /\ UNCHANGED <<cc_maxsize, cc_buffer, cc_error, cc_raised, gl_pc, gl_count,
                   gl_temp_list, gl_done, gl_readings>>
    /\ UNCHANGED concurrentRest

\* _collection_loop: read_acceleration() returned None: collection_error, continue.
cl_read_none ==
    /\ cl_pc = "read"
    /\ cc_error' = TRUE
    /\ UNCHANGED <<cc_maxsize, cc_buffer, cc_raised, cc_clock, cc_reading, cl_pc, gl_pc,
                   gl_count, gl_temp_list, gl_done, gl_readings>>
    /\ UNCHANGED concurrentRest

\* _collection_loop: `if self.buffer.full()`
cl_full ==
    /\ cl_pc = "full"
    /\ cl_pc' = IF queue_full(cc_buffer, cc_maxsize) THEN "evict" ELSE "put"
    /\ UNCHANGED <<cc_maxsize, cc_buffer, cc_error, cc_raised, cc_clock, cc_reading, gl_pc,
                   gl_count, gl_temp_list, gl_done, gl_readings>>
    /\ UNCHANGED concurrentRest

\* _collection_loop: self.buffer.get_nowait(); on an empty queue it raises Empty,
\* the handler sets collection_error and the loop goes round without the reading.
cl_evict ==
    /\ cl_pc = "evict"
    /\ IF queue_empty(cc_buffer)
         THEN /\ cc_error' = TRUE
              /\ cc_raised' = "Empty"
              /\ cl_pc' = "read"
              /\ UNCHANGED cc_buffer
         ELSE /\ cc_buffer' = queue_get(cc_buffer).rest
              /\ cl_pc' = "put"
              /\ UNCHANGED <<cc_error, cc_raised>>
    /\ UNCHANGED <<cc_maxsize, cc_clock, cc_reading, gl_pc, gl_count, gl_temp_list,
                   gl_done, gl_readings>>
    /\ UNCHANGED concurrentRest

\* _collection_loop: self.buffer.put_nowait(reading); on a full queue it raises
\* Full, the handler sets collection_error and the loop goes round without the
\* reading.
cl_put ==
    /\ cl_pc = "put"
    /\ IF queue_full(cc_buffer, cc_maxsize)
         THEN /\ cc_error' = TRUE
              /\ cc_raised' = "Full"
              /\ cl_pc' = "read"
              /\ UNCHANGED cc_buffer
         ELSE /\ cc_buffer' = Append(cc_buffer, cc_reading)
              /\ cl_pc' = "sleep"
              /\ UNCHANGED <<cc_error, cc_raised>>
    /\ UNCHANGED <<cc_maxsize, cc_clock, cc_reading, gl_pc, gl_count, gl_temp_list,
                   gl_done, gl_readings>>
    /\ UNCHANGED concurrentRest

\* _collection_loop: time.sleep(1.0 / sampling_rate)
cl_sleep ==
    /\ cl_pc = "sleep"
    /\ cl_pc' = "read"
    /\ UNCHANGED <<cc_maxsize, cc_buffer, cc_error, cc_raised, cc_clock, cc_reading, gl_pc,
                   gl_count, gl_temp_list, gl_done, gl_readings>>
    /\ UNCHANGED concurrentRest

\* get_latest_readings(count) called: readings = [], temp_list = [].
gl_call ==
    /\ gl_pc = "idle"
    /\ \E count \in 0..MaxCount : gl_count' = count
    /\ gl_temp_list' = <<>>
    /\ gl_done' = 0
    /\ gl_readings' = <<>>
    /\ gl_pc' = "while"
    /\ UNCHANGED <<cc_maxsize, cc_buffer, cc_error, cc_raised, cc_clock, cc_reading, cl_pc>>
    /\ UNCHANGED concurrentRest

\* get_latest_readings: `while not self.buffer.empty() and len(temp_list) < count`
gl_while ==
    /\ gl_pc = "while"
    /\ gl_pc' = IF ~queue_empty(cc_buffer) /\ Len(gl_temp_list) < gl_count
                THEN "get" ELSE "for"
    /\ UNCHANGED <<cc_maxsize, cc_buffer, cc_error, cc_raised, cc_clock, cc_reading, cl_pc,
                   gl_count, gl_temp_list, gl_done, gl_readings>>
    /\ UNCHANGED concurrentRest

\* get_latest_readings: temp_list.append(self.buffer.get()); get() waits while the
\* queue is empty.
gl_get ==
    /\ gl_pc = "get"
    /\ ~queue_empty(cc_buffer)
    /\ gl_temp_list' = Append(gl_temp_list, queue_get(cc_buffer).item)
    /\ cc_buffer' = queue_get(cc_buffer).rest
    /\ gl_pc' = "while"
    /\ UNCHANGED <<cc_maxsize, cc_error, cc_raised, cc_clock, cc_reading, cl_pc, gl_count,
                   gl_done, gl_readings>>
    /\ UNCHANGED concurrentRest

\* get_latest_readings: `for reading in temp_list`, and the return after it.
gl_for ==
    /\ gl_pc = "for"
    /\ gl_pc' = IF gl_done < Len(gl_temp_list) THEN "put" ELSE "idle"
    /\ UNCHANGED <<cc_maxsize, cc_buffer, cc_error, cc_raised, cc_clock, cc_reading, cl_pc,
                   gl_count, gl_temp_list, gl_done, gl_readings>>
    /\ UNCHANGED concurrentRest

\* get_latest_readings: self.buffer.put(reading), which waits while the queue is
\* full, then readings.append(reading.to_dict()).
gl_put ==
    /\ gl_pc = "put"
    /\ ~queue_full(cc_buffer, cc_maxsize)
    /\ cc_buffer' = Append(cc_buffer, gl_temp_list[gl_done + 1])
    /\ gl_readings' = Append(gl_readings, to_dict(gl_temp_list[gl_done + 1]))
    /\ gl_done' = gl_done + 1
    /\ gl_pc' = "for"
    /\ UNCHANGED <<cc_maxsize, cc_error, cc_raised, cc_clock, cc_reading, cl_pc, gl_count,
                   gl_temp_list>>
    /\ UNCHANGED concurrentRest

ConcurrentNext ==
    \/ cl_read
    \/ cl_read_none
    \/ cl_full
    \/ cl_evict
    \/ cl_put
    \/ cl_sleep
    \/ gl_call
    \/ gl_while
    \/ gl_get
    \/ gl_for
    \/ gl_put

\* ------------------------------------------------------------------ raw log

\* Largest number of readings the sensor produces.
MaxProduced == 12

DATA_COLLECTION_max_offline_buffer == 1000

RawLogInit ==
    /\ rl_buffer = <<>>
    /\ rl_clock = 0
    /\ rl_log = <<>>
    /\ rl_cycles = 0

RawLogParked == RawLogInit

\* Sensor._loop, one pass with a reading: stamped and appended under the lock.
rl_sample ==
    /\ rl_clock < MaxProduced
    /\ rl_clock' = rl_clock + 1
    /\ rl_buffer' = deque_append(rl_buffer, DATA_COLLECTION_max_offline_buffer,
                                 SensorReading(rl_clock + 1, <<0, 0, 1>>))
    /\ UNCHANGED <<rl_log, rl_cycles>>
    /\ UNCHANGED rawlogRest

\* writer.writerow([r["timestamp"], r["x"], r["y"], r["z"]]) for r in readings
raw_rows(readings) ==
    [i \in 1..Len(readings) |->
        <<readings[i]["timestamp"], readings[i]["x"], readings[i]["y"], readings[i]["z"]>>]

\* main, the head of one cycle: readings = sensor.get_latest_readings(count =
\* buffer_size), and every reading of it is appended to the raw CSV.
rl_cycle ==
    /\ rl_cycles < MaxCycles
    /\ rl_cycles' = rl_cycles + 1
    /\ LET items == IF rl_buffer = <<>> THEN <<>>
                    ELSE latest_items(rl_buffer, DATA_COLLECTION_buffer_size)
           readings == [i \in 1..Len(items) |-> to_dict(items[i])]
       IN  rl_log' = rl_log \o raw_rows(readings)
    /\ UNCHANGED <<rl_buffer, rl_clock>>
    /\ UNCHANGED rawlogRest

RawLogNext ==
    \/ rl_sample
    \/ rl_cycle

\* ------------------------------------------------------------------ Sensor start / shutdown

\* Sensor.__init__: _running = False, no thread.
SensorLifeInit ==
    /\ sl_running = FALSE
    /\ sl_loops = [k \in 1..MaxStarts |-> "none"]
    /\ sl_starts = 0
    /\ sl_pc = "idle"

\* The sensor's start / shutdown part stands still.
SensorLifeParked == SensorLifeInit

\* start_collection(): returns False when _running is set; otherwise sets it and
\* creates and starts a new sampling thread.
sl_start_collection ==
    /\ sl_pc = "idle"
    /\ sl_starts < MaxStarts
    /\ IF sl_running
         THEN UNCHANGED <<sl_running, sl_loops, sl_starts>>
         ELSE /\ sl_running' = TRUE
              /\ sl_starts' = sl_starts + 1
              /\ sl_loops' = [sl_loops EXCEPT ![sl_starts + 1] = "while"]
    /\ UNCHANGED sl_pc
    /\ UNCHANGED sensorLifeRest

\* shutdown(): _running = False; `if self._thread` goes on to the join.
sl_shutdown ==
    /\ sl_pc = "idle"
    /\ sl_running' = FALSE
    /\ sl_pc' = IF sl_starts > 0 THEN "join" ELSE "idle"
    /\ UNCHANGED <<sl_loops, sl_starts>>
    /\ UNCHANGED sensorLifeRest

\* shutdown(): self._thread.join(timeout=1.0) returns when the last thread created
\* has ended, or when the second has passed.
sl_join ==
    /\ sl_pc = "join"
    /\ \E timeout \in BOOLEAN : sl_loops[sl_starts] = "done" \/ timeout
    /\ sl_pc' = "idle"
    /\ UNCHANGED <<sl_running, sl_loops, sl_starts>>
    /\ UNCHANGED sensorLifeRest

\* _loop of thread k: `while self._running`
sl_loop_while(k) ==
    /\ sl_loops[k] = "while"
    /\ sl_loops' = [sl_loops EXCEPT ![k] = IF sl_running THEN "body" ELSE "done"]
    /\ UNCHANGED <<sl_running, sl_starts, sl_pc>>
    /\ UNCHANGED sensorLifeRest

\* _loop of thread k: one pass of the body (read, append under the lock, sleep).
sl_loop_body(k) ==
    /\ sl_loops[k] = "body"
    /\ sl_loops' = [sl_loops EXCEPT ![k] = "while"]
    /\ UNCHANGED <<sl_running, sl_starts, sl_pc>>
    /\ UNCHANGED sensorLifeRest

\* start / stop of the transmitter and start / shutdown of the sensor, in any order.
LifeNext ==
    \/ api_start
    \/ api_start_error
    \/ api_stop
    \/ \E k \in 1..MaxStarts : thread_while(k)
    \/ \E k \in 1..MaxStarts : thread_body(k)
    \/ sl_start_collection
    \/ sl_shutdown
    \/ sl_join
    \/ \E k \in 1..MaxStarts : sl_loop_while(k)
    \/ \E k \in 1..MaxStarts : sl_loop_body(k)

\* ------------------------------------------------------------------ specifications

\* The component not under study stays as constructed.
SensorParked == SensorInit /\ sensor_maxlen = MaxCap

TxParked == TxInit /\ max_buffer_size = MaxQueue /\ client_ok

\* The parts outside the pipeline components, as constructed.
RestParked ==
    /\ LifeInit /\ AckInit /\ ack_attempts = MaxAttempts
    /\ MainInit /\ ProcParked /\ CsvParked /\ StatusParked /\ CollectorParked /\ ThreadsParked /\ I2CParked /\ BandsParked /\ ConcurrentParked /\ RawLogParked /\ SensorLifeParked

InitSensor == SensorInit /\ TxParked /\ RestParked

InitTx == TxInit /\ SensorParked /\ RestParked

SpecSensor == InitSensor /\ [][SensorNext]_vars

SpecTx == InitTx /\ [][TxNext]_vars

\* The drain loop is a thread of its own: the scheduler keeps running it.
SpecTxFair == SpecTx /\ WF_vars(DrainNext)

\* The transmitter when, besides, every publish call runs to its end.
SpecTxLive == SpecTx /\ WF_vars(DrainNext) /\ WF_vars(PublishNext)

InitLife ==
    /\ LifeInit /\ SensorParked /\ TxParked
    /\ AckInit /\ ack_attempts = MaxAttempts /\ MainInit /\ ProcParked /\ CsvParked /\ StatusParked /\ CollectorParked /\ ThreadsParked /\ I2CParked /\ BandsParked /\ ConcurrentParked /\ RawLogParked /\ SensorLifeInit

\* start() and stop() called in any order, as the class allows.
SpecLife == InitLife /\ [][LifeNext]_vars

InitAck ==
    AckInit /\ SensorParked /\ TxParked /\ LifeInit /\ MainInit /\ ProcParked /\ CsvParked /\ StatusParked /\ CollectorParked /\ ThreadsParked /\ I2CParked /\ BandsParked /\ ConcurrentParked /\ RawLogParked /\ SensorLifeParked

\* One call of send_ack.
SpecAck == InitAck /\ [][AckNext]_vars

InitMain ==
    /\ MainInit /\ SensorParked /\ TxParked /\ LifeInit
    /\ AckInit /\ ack_attempts = MaxAttempts /\ ProcParked /\ CsvParked /\ StatusParked /\ CollectorParked /\ ThreadsParked /\ I2CParked /\ BandsParked /\ ConcurrentParked /\ RawLogParked /\ SensorLifeParked

\* The cycles of main's loop.
SpecMain == InitMain /\ [][MainNext]_vars

InitProc ==
    /\ ProcInit /\ SensorParked /\ TxParked /\ LifeInit
    /\ AckInit /\ ack_attempts = MaxAttempts /\ MainInit /\ CsvParked /\ StatusParked /\ CollectorParked /\ ThreadsParked /\ I2CParked /\ BandsParked /\ ConcurrentParked /\ RawLogParked /\ SensorLifeParked

\* One call of process_batch.
SpecProc == InitProc /\ [][ProcNext]_vars

InitSamples ==
    /\ SamplesInit /\ SensorParked /\ TxParked /\ LifeInit
    /\ AckInit /\ ack_attempts = MaxAttempts /\ MainInit /\ CsvParked /\ StatusParked /\ CollectorParked /\ ThreadsParked /\ I2CParked /\ BandsParked /\ ConcurrentParked /\ RawLogParked /\ SensorLifeParked

\* One call of process_batch on a batch of sensor readings.
SpecSamples == InitSamples /\ [][ProcNext]_vars

InitCsv ==
    /\ CsvInit /\ SensorParked /\ TxParked /\ LifeInit
    /\ AckInit /\ ack_attempts = MaxAttempts /\ MainInit /\ ProcParked /\ StatusParked /\ CollectorParked /\ ThreadsParked /\ I2CParked /\ BandsParked /\ ConcurrentParked /\ RawLogParked /\ SensorLifeParked

\* One call of format_csv.
SpecCsv == InitCsv /\ [][CsvNext]_vars

\* The transmitter with its status getters called at any time.
SpecTxStatus == InitTx /\ [][TxStatusNext]_vars

InitCollector ==
    /\ CollectorInit /\ SensorParked /\ TxParked /\ LifeInit /\ AckInit
    /\ ack_attempts = MaxAttempts /\ MainInit /\ ProcParked /\ CsvParked /\ StatusParked /\ ThreadsParked /\ I2CParked /\ BandsParked /\ ConcurrentParked /\ RawLogParked /\ SensorLifeParked

\* A DataCollector that collects and is asked for its latest readings.
SpecCollector == InitCollector /\ [][CollectorNext]_vars

InitThreads ==
    /\ ThreadsInit /\ SensorParked /\ TxParked /\ LifeInit /\ AckInit
    /\ ack_attempts = MaxAttempts /\ MainInit /\ ProcParked /\ CsvParked /\ StatusParked
    /\ CollectorParked /\ I2CParked /\ BandsParked /\ ConcurrentParked /\ RawLogParked /\ SensorLifeParked

\* start_thread and stop_all_threads called in any order.
SpecThreads == InitThreads /\ [][ThreadsNext]_vars

\* A thread that was started gets to run.
SpecThreadsFair == SpecThreads /\ \A i \in 1..MaxThreads : WF_vars(thread_run(i))

InitI2C ==
    /\ I2CInit /\ SensorParked /\ TxParked /\ LifeInit /\ AckInit
    /\ ack_attempts = MaxAttempts /\ MainInit /\ ProcParked /\ CsvParked /\ StatusParked
    /\ CollectorParked /\ ThreadsParked /\ BandsParked /\ ConcurrentParked /\ RawLogParked /\ SensorLifeParked

\* One call of I2CDevice.read_data.
SpecI2C == InitI2C /\ [][I2CNext]_vars

InitBands ==
    /\ BandsInit /\ SensorParked /\ TxParked /\ LifeInit /\ AckInit
    /\ ack_attempts = MaxAttempts /\ MainInit /\ ProcParked /\ CsvParked /\ StatusParked
    /\ CollectorParked /\ ThreadsParked /\ I2CParked /\ ConcurrentParked /\ RawLogParked /\ SensorLifeParked

\* The band loop of _compute_frequency on one spectrum.
SpecBands == InitBands /\ [][BandsNext]_vars

InitConcurrent ==
    /\ ConcurrentInit /\ SensorParked /\ TxParked /\ LifeInit /\ AckInit
    /\ ack_attempts = MaxAttempts /\ MainInit /\ ProcParked /\ CsvParked /\ StatusParked
    /\ CollectorParked /\ ThreadsParked /\ I2CParked /\ BandsParked /\ RawLogParked /\ SensorLifeParked

\* The collection thread and a caller of get_latest_readings, step by step.
SpecConcurrent == InitConcurrent /\ [][ConcurrentNext]_vars

InitRawLog ==
    /\ RawLogInit /\ SensorParked /\ TxParked /\ LifeInit /\ AckInit
    /\ ack_attempts = MaxAttempts /\ MainInit /\ ProcParked /\ CsvParked /\ StatusParked
    /\ CollectorParked /\ ThreadsParked /\ I2CParked /\ BandsParked /\ ConcurrentParked /\ SensorLifeParked

\* The sampling loop and the head of main's cycles, at any relative speed.
SpecRawLog == InitRawLog /\ [][RawLogNext]_vars

\* The steps of the Sensor._loop thread.
SamplingNext ==
    \/ loop_while
    \/ loop_read_ok
    \/ loop_read_fail
    \/ loop_acquire
    \/ loop_append
    \/ loop_sleep

\* The steps of the health monitor's get_status call.
StatusNext ==
    \/ gs_acquire
    \/ gs_len
    \/ gs_return

\* The Sensor with none of its threads in existence.
SensorOff ==
    /\ sensor_maxlen = MaxCap
    /\ sensor_buffer = <<>>
    /\ sensor_lock = "free"
    /\ sensor_running = FALSE
    /\ loop_pc = "none"
    /\ loop_reading = NoReading
    /\ clock = 0
    /\ main_pc = "off"
    /\ glr_count = 0
    /\ glr_items = <<>>
    /\ glr_ret = <<>>
    /\ glr_seen = <<>>
    /\ glr_returned = FALSE
    /\ health_pc = "off"
    /\ gs_size = 0
    /\ gs_ret = [running |-> FALSE, sampling_rate_hz |-> sampling_rate_hz, buffer_size |-> 0]
    /\ inserted = <<>>

\* The transmitter with no caller and none of its threads in existence.
TxOff ==
    /\ max_buffer_size = MaxQueue
    /\ tx_connected = FALSE
    /\ tx_buffer = <<>>
    /\ tx_stop = FALSE
    /\ net_loop = FALSE
    /\ client_ok \in BOOLEAN
    /\ app_pc = "off"
    /\ pub_pc = "idle"
    /\ pub_payload = 0
    /\ pub_connected = FALSE
    /\ pub_sent = "none"
    /\ pub_ret = FALSE
    /\ pub_q0 = <<>>
    /\ pub_deq = FALSE
    /\ n_published = 0
    /\ drain_pc = "none"
    /\ drain_payload = 0
    /\ drain_handed = <<>>
    /\ dropped = {}
    /\ fail_pending = FALSE

\* Either component, from construction to the end of its background loop.
InitStop ==
    /\ \/ SensorInit /\ sensor_maxlen = MaxCap /\ TxOff
       \/ TxInit /\ max_buffer_size = MaxQueue /\ SensorOff
    /\ RestParked

StopNext == SensorNext \/ TxNext

SpecStop == InitStop /\ [][StopNext]_vars

\* Every thread keeps being scheduled (the sampling loop, the drain loop, the health
\* monitor), and a thread waiting for the sensor lock gets it when it is free often
\* enough: the other holders keep it for a copy or a len() only.
SpecStopFair ==
    /\ SpecStop
    /\ WF_vars(DrainNext)
    /\ WF_vars(SamplingNext)
    /\ SF_vars(loop_acquire)
    /\ WF_vars(StatusNext)

\* ------------------------------------------------------------------ Sensor: claims

\* The dicts get_latest_readings returns for a list of readings.
Dicts(items) == [i \in 1..Len(items) |-> to_dict(items[i])]

\* C1: for every capacity N >= 1 the sample buffer never holds more than N readings,
\* and it holds exactly the last N readings appended (all of them while fewer than N
\* were appended), oldest first, in insertion order.
C1_BufferHoldsLastN ==
    sensor_maxlen >= 1 =>
        /\ Len(sensor_buffer) <= sensor_maxlen
        /\ sensor_buffer = LastN(inserted, sensor_maxlen)

\* C1 witness: more readings were appended than the buffer holds, so the oldest
\* were evicted.
C1_Witness ==
    /\ sensor_maxlen >= 2
    /\ Len(inserted) > sensor_maxlen
    /\ Len(sensor_buffer) = sensor_maxlen

\* C2 (as claimed): a returned get_latest_readings(count), count >= 0, gave exactly
\* the min(count, L) most recent of the L readings buffered, oldest first.
C2_ReturnsMinCountMostRecent ==
    (glr_returned /\ main_pc \in {"run", "halted"}) =>
        glr_ret = Dicts(LastN(glr_seen, Min(glr_count, Len(glr_seen))))

\* C3: no step of get_latest_readings or of get_status changes the sample buffer.
C3_ReadersLeaveBuffer ==
    [][ ( \/ (main_pc' # main_pc /\ (main_pc \in {"glr_locked", "glr_return"}
                                     \/ main_pc' \in {"glr_locked", "glr_return"}))
          \/ health_pc' # health_pc )
        => sensor_buffer' = sensor_buffer ]_vars

\* C3 witness: both calls have returned on a non-empty buffer, which is still there.
C3_Witness ==
    /\ glr_returned
    /\ main_pc = "run"
    /\ glr_ret # <<>>
    /\ gs_ret.buffer_size > 0
    /\ health_pc = "idle"
    /\ sensor_buffer = glr_seen
    /\ sensor_buffer # <<>>

\* ------------------------------------------------------------------ LTETransmitter: claims

Range(q) == {q[i] : i \in 1..Len(q)}

StrictlyIncreasing(q) == \A i, j \in 1..Len(q) : i < j => q[i] < q[j]

\* a is the tail end of b.
IsSuffix(a, b) == Len(a) <= Len(b) /\ a = SubSeq(b, Len(b) - Len(a) + 1, Len(b))

\* The step with which a publish call returns.
PubReturns == pub_pc # "idle" /\ pub_pc' = "idle"

\* C4 (as claimed): a publish called while not connected returns False and leaves the
\* queue as it was at the call plus the payload, or, when it was at capacity, minus
\* its oldest element plus the payload.
C4_OfflinePublishGrowsQueue ==
    [][ (PubReturns /\ ~pub_connected) =>
          /\ pub_ret' = FALSE
          /\ \/ tx_buffer' = Append(pub_q0, pub_payload)
             \/ /\ pub_q0 # <<>>
                /\ Len(pub_q0) = max_buffer_size
                /\ tx_buffer' = Append(Tail(pub_q0), pub_payload) ]_vars

\* C4 (amended): a publish called while not connected returns False with the payload
\* as the newest element of the queue, behind a tail end of the queue as it was at
\* the call; and when the drain loop dequeued nothing during the call, the queue is
\* exactly the queue at the call plus the payload, or, when it was at capacity, minus
\* its oldest element plus the payload.
C4_OfflinePublishEnqueues ==
    [][ (PubReturns /\ ~pub_connected) =>
          /\ pub_ret' = FALSE
          /\ tx_buffer' # <<>>
          /\ tx_buffer'[Len(tx_buffer')] = pub_payload
          /\ IsSuffix(SubSeq(tx_buffer', 1, Len(tx_buffer') - 1), pub_q0)
          /\ ~pub_deq =>
               \/ tx_buffer' = Append(pub_q0, pub_payload)
               \/ /\ pub_q0 # <<>>
                  /\ Len(pub_q0) = max_buffer_size
                  /\ tx_buffer' = Append(Tail(pub_q0), pub_payload) ]_vars

\* C4 witness: an offline publish has just returned False after evicting the oldest
\* payload of a queue that was at capacity.
C4_Witness ==
    /\ pub_pc = "idle"
    /\ ~pub_connected
    /\ pub_ret = FALSE
    /\ max_buffer_size >= 2
    /\ n_published > max_buffer_size
    /\ Len(tx_buffer) = max_buffer_size
    /\ tx_buffer[Len(tx_buffer)] = pub_payload
    /\ tx_buffer[1] = 2

\* C5 (as claimed): for every max_buffer_size M the offline queue never holds more
\* than M payloads.
C5_QueueNeverExceedsCapacity == Len(tx_buffer) <= max_buffer_size

\* C6: publish returns True exactly when it read the connection flag as connected
\* and its immediate send succeeded, and then the payload is not in the queue; in
\* every other case it returns False with the payload enqueued as the newest element.
C6_PublishResult ==
    [][ PubReturns =>
          /\ pub_ret' = (pub_connected /\ pub_sent' = "ok")
          /\ pub_ret' => (tx_buffer' = tx_buffer /\ pub_payload \notin Range(tx_buffer'))
          /\ ~pub_ret' => (tx_buffer' # <<>> /\ tx_buffer'[Len(tx_buffer')] = pub_payload)
      ]_vars

\* C6 witness: a publish returned True after a successful immediate send while an
\* earlier payload is still queued; the sent payload is not in the queue.
C6_Witness ==
    /\ pub_pc = "idle"
    /\ pub_ret = TRUE
    /\ pub_connected
    /\ pub_sent = "ok"
    /\ tx_buffer # <<>>
    /\ pub_payload \notin Range(tx_buffer)

\* Positions of a publish call, in the order the code passes them.
PubRank(pc) == CASE pc = "send" -> 1 [] pc = "full" -> 2 [] pc = "evict" -> 3
                 [] pc = "put" -> 4 [] pc = "idle" -> 5

\* C7: a publish call in progress can always take its next step, whatever the drain
\* loop and the callbacks have done, and every step moves it forward towards its
\* return: it never waits and returns after a bounded number of its own steps.
C7_PublishNeverWaits ==
    /\ [](pub_pc # "idle" => ENABLED PublishNext)
    /\ [][ (pub_pc # "idle" /\ pub_pc' # pub_pc) => PubRank(pub_pc') > PubRank(pub_pc) ]_vars

\* C7 witness: publish found the queue full and is about to evict, but the drain
\* loop has emptied the queue meanwhile.
C7_Witness ==
    /\ pub_pc = "evict"
    /\ queue_empty(tx_buffer)

\* Connected, every send succeeding, no publish call, not stopped.
Settled == tx_connected /\ client_ok /\ pub_pc = "idle" /\ ~tx_stop

\* What the drain loop has handed over, holds in hand and has still queued.
DrainSequence ==
    drain_handed \o (IF drain_pc = "publish" THEN <<drain_payload>> ELSE <<>>) \o tx_buffer

\* C8: once the transmitter stays connected with every send succeeding and no
\* further publish call, the drain loop eventually leaves the queue empty for good;
\* and the drain loop hands payloads to the transport in the order they were
\* enqueued (payloads are numbered in publish order).
C8_DrainEmptiesInOrder ==
    /\ <>[]Settled => <>[](tx_buffer = <<>> /\ drain_pc \notin {"get", "publish"})
    /\ [](StrictlyIncreasing(DrainSequence))

\* C8 witness: the drain loop has handed over several queued payloads, none failed,
\* and the queue is empty.
C8_Witness ==
    /\ Settled
    /\ tx_buffer = <<>>
    /\ Len(drain_handed) >= 2
    /\ dropped = {}
    /\ drain_pc = "sleep"

\* C9 (as claimed): after a failed send the drain loop dequeues no further payload
\* until it has slept one retry interval.
C9_NoDequeueBeforeSleep == ~(fail_pending /\ drain_pc = "publish")

\* C10: a payload whose drain-loop send failed is never in the queue again, and the
\* failure leaves the queue as it was.
C10_FailedPayloadDropped ==
    /\ [](dropped \cap Range(tx_buffer) = {})
    /\ [][ dropped' # dropped => tx_buffer' = tx_buffer ]_vars

\* C10 witness: a drain-loop send has just failed while other payloads are queued.
C10_Witness ==
    /\ dropped # {}
    /\ fail_pending
    /\ Len(tx_buffer) >= 2


\* ------------------------------------------------------------------ claims: start / stop

\* The drain threads that have not left their loop.
RunningLoops == {k \in 1..MaxStarts : lc_loops[k] \in {"while", "body"}}

\* C11: after any sequence of start() calls with no stop() in between, at most one
\* drain loop is running and at most one connection attempt has been initiated.
C11_StartGuarded ==
    ~lc_stopped => /\ Cardinality(RunningLoops) <= 1
                   /\ lc_connects <= 1

\* C12: once stop() (shutdown()) has set the flag, the drain loop (the sampling loop)
\* exits: it ends up at its end, the `while` test that follows the flag leads out of
\* the loop, a sleep in progress is followed by that test, and a loop that has left
\* sends and pushes nothing.
C12_LoopsExitAfterStop ==
    /\ (tx_stop /\ drain_pc # "none") ~> (drain_pc = "done")
    /\ (main_pc = "halted" /\ loop_pc # "none") ~> (loop_pc = "done")
    /\ [][/\ (tx_stop /\ drain_pc = "while" /\ drain_pc' # "while") => drain_pc' = "done"
          /\ (tx_stop /\ drain_pc = "sleep" /\ drain_pc' # "sleep") => drain_pc' = "while"
          /\ drain_pc = "done" => /\ drain_pc' = "done"
                                  /\ drain_handed' = drain_handed
                                  /\ drain_payload' = drain_payload
          /\ (~sensor_running /\ loop_pc = "while" /\ loop_pc' # "while")
                => loop_pc' = "done"
          /\ (~sensor_running /\ loop_pc = "sleep" /\ loop_pc' # "sleep")
                => loop_pc' = "while"
          /\ loop_pc = "done" => /\ loop_pc' = "done"
                                 /\ inserted' = inserted
                                 /\ sensor_buffer' = sensor_buffer]_vars

\* stop() was called while the drain loop was past its `while` test with a payload
\* in hand; the loop sent it and then left.
C12_Witness ==
    /\ tx_stop
    /\ drain_pc = "done"
    /\ drain_handed # <<>>
    /\ app_pc = "stopped"
\* ------------------------------------------------------------------ claims: send_ack

\* The attempts whose response was accepted.
AcceptedAttempts == {i \in 1..Len(ack_hist) : ack_hist[i] = "accept"}

\* C13: send_ack returns False only with all n = attempts attempts made (the port
\* opened exactly n times), and a call in which no attempt was accepted ends that way.
C13_FalseOnlyWhenExhausted ==
    /\ ack_result = "False" => /\ ack_opens = ack_attempts
                               /\ Len(ack_hist) = ack_attempts
    /\ (ack_pc = "done" /\ AcceptedAttempts = {}) => /\ ack_result = "False"
                                                    /\ ack_opens = ack_attempts

\* All three attempts failed, one with an error and one with a rejected response.
C13_Witness ==
    /\ ack_result = "False"
    /\ ack_attempts = MaxAttempts
    /\ ack_opens = MaxAttempts
    /\ {"error", "reject"} \subseteq Range(ack_hist)

\* C14: an accepted response ends the call at once: send_ack has returned True exactly
\* when an attempt was accepted, that attempt i is the last one made, the port was
\* opened i times and only the i - 1 attempts before it were followed by the delay.
C14_SucceedsImmediately ==
    /\ (AcceptedAttempts # {}) <=> (ack_result = "True")
    /\ ack_result = "True" => /\ ack_pc = "done"
                              /\ AcceptedAttempts = {Len(ack_hist)}
                              /\ ack_attempt = Len(ack_hist)
                              /\ ack_opens = ack_attempt
                              /\ ack_sleeps = ack_attempt - 1

\* The first attempt failed with an error, the second was accepted.
C14_Witness ==
    /\ ack_result = "True"
    /\ ack_hist = <<"error", "accept">>
    /\ ack_sleeps = 1

\* C15: an exception of the serial channel never leaves send_ack: the call ends with
\* True or False; every such exception is printed and takes the call to the delay,
\* the delay leads back to the loop head, and the loop head starts the next attempt
\* while attempts remain.
C15_TransportErrorContained ==
    /\ [](/\ ack_result \in {"none", "True", "False"}
          /\ ack_pc = "done" => ack_result \in {"True", "False"}
          /\ ack_logged = Cardinality({i \in 1..Len(ack_hist) : ack_hist[i] = "error"}))
    /\ [][/\ (Len(ack_hist') > Len(ack_hist) /\ ack_hist'[Len(ack_hist')] = "error")
                => /\ ack_pc' = "sleep"
                   /\ ack_logged' = ack_logged + 1
                   /\ ack_result' = "none"
          /\ (ack_pc = "sleep" /\ ack_pc' # "sleep")
                => /\ ack_pc' = "for"
                   /\ ack_sleeps' = ack_sleeps + 1
          /\ (ack_pc = "for" /\ ack_attempt < ack_attempts /\ ack_pc' # "for")
                => /\ ack_pc' = "open"
                   /\ ack_attempt' = ack_attempt + 1]_vars

\* The first attempt failed with an exception on the open port; the second attempt
\* has opened the port.
C15_Witness ==
    /\ ack_hist = <<"error">>
    /\ ack_opens = 2
    /\ ack_attempt = 2
    /\ ack_pc = "io"
    /\ ack_sleeps = 1

\* The two spellings of each letter of ACK and OK.
EitherCase(c) ==
    CASE c = "A" -> {"A", "a"}
      [] c = "C" -> {"C", "c"}
      [] c = "K" -> {"K", "k"}
      [] c = "O" -> {"O", "o"}

\* b is the word w, in any mix of cases.
IsWord(b, w) == Len(b) = Len(w) /\ \A i \in 1..Len(w) : b[i] \in EitherCase(w[i])

\* b is ACK or OK in any mix of cases, with nothing but whitespace around it.
IsAckOrOk(b) ==
    \E i \in 1..(Len(b) + 1), j \in 0..Len(b) :
        /\ \A k \in 1..(i - 1) : b[k] \in Whitespace
        /\ \A k \in (j + 1)..Len(b) : b[k] \in Whitespace
        /\ \/ IsWord(SubSeq(b, i, j), <<"A", "C", "K">>)
           \/ IsWord(SubSeq(b, i, j), <<"O", "K">>)

\* C16: the response read in an attempt is accepted if and only if it is ACK or OK,
\* in any mix of cases, with nothing but whitespace around it; every other response
\* is rejected for that attempt.
C16_AcceptedIffAckOrOk ==
    (/\ ack_pc = "sleep" \/ ack_result = "True"
     /\ ack_hist # <<>>
     /\ ack_hist[Len(ack_hist)] # "error")
        => ((ack_hist[Len(ack_hist)] = "accept") <=> IsAckOrOk(ack_resp))

\* A lower-case letter and whitespace on both sides: accepted.
C16_Witness ==
    /\ ack_result = "True"
    /\ ack_resp = <<" ", "O", "k", " ">>
\* ------------------------------------------------------------------ claims: main loop

\* C17: in every cycle of the main loop, lte.publish is called (once at most) only
\* after send_ack returned True in that cycle, and a cycle in which send_ack returned
\* False (or was not called) makes no publish call and enqueues no payload.
C17_HandshakeGatesPublish ==
    /\ ml_pub_calls <= 1
    /\ ml_pub_calls > 0 => ml_ack = "True"
    /\ ml_enqueued > 0 => ml_pub_calls > 0
    /\ ml_ack # "True" => (ml_pub_calls = 0 /\ ml_enqueued = 0)
    /\ ml_pc = "publish" => ml_ack = "True"

\* A full batch was processed, send_ack returned False and the cycle went to its sleep.
C17_Witness ==
    /\ ml_pc = "sleep"
    /\ ml_len = DATA_COLLECTION_buffer_size
    /\ ml_ack = "False"
    /\ ml_pub_calls = 0
\* ------------------------------------------------------------------ claims: process_batch

\* The number of readings in the batch.
BatchSize == Len(pb_readings.rows)

\* Every reading has timestamp, x, y and z (under these or the sensor-style names).
WellFormed == \A c \in Range(REQUIRED_COLUMNS) : c \in {renamed(k) : k \in pb_readings.columns}

C19_MissingColumnIsSchemaError ==
    (pb_pc = "done" /\ BatchSize > 0 /\ ~WellFormed) =>
        /\ pb_result.outcome = "raised"
        /\ pb_result.error.type = "ValueError"
        /\ pb_result.error.message = "Missing columns"
        /\ pb_result.value = EmptyDict

\* The four keys every feature vector is said to have, with their values.
BatchKeys(v) ==
    /\ {"sample_count", "timestamp_start", "timestamp_end", "duration"} \subseteq DOMAIN v
    /\ v["sample_count"] = BatchSize
    /\ \A i \in 1..BatchSize : /\ v["timestamp_start"] <= pb_readings.rows[i]["timestamp"]
                               /\ v["timestamp_end"] >= pb_readings.rows[i]["timestamp"]
    /\ \E i \in 1..BatchSize : v["timestamp_start"] = pb_readings.rows[i]["timestamp"]
    /\ \E i \in 1..BatchSize : v["timestamp_end"] = pb_readings.rows[i]["timestamp"]
    /\ v["duration"] = v["timestamp_end"] - v["timestamp_start"]
    /\ v["duration"] >= 0

ConstantBatch(n) ==
    /\ BatchSize = n
    /\ \A i \in 1..n : /\ pb_readings.rows[i]["x"] = 1
                       /\ pb_readings.rows[i]["y"] = 0
                       /\ pb_readings.rows[i]["z"] = 0

\* The quotient r is the integer k.
RatioIs(r, k) == r.den > 0 /\ r.num = k * r.den

\* The square root r is the integer k >= 0: no epsilon under the root, radicand k * k.
RootIs(r, k) == r.plus_eps = 0 /\ RatioIs(r.sqrt_of, k * k)

\* C21 (as stated): ten readings x = 1, y = 0, z = 0 give std_X = 0, rms_X = 1,
\* crest_X = 1 and mean_X = 1.
C21_ConstantBatchFeatures ==
    (pb_pc = "done" /\ ConstantBatch(10)) =>
        /\ pb_result.outcome = "returned"
        /\ RootIs(pb_result.value["std_X"], 0)
        /\ RootIs(pb_result.value["rms_X"], 1)
        /\ RootIs(pb_result.value["crest_X"].over, pb_result.value["crest_X"].peak)
        /\ pb_result.value["crest_X"].peak = 1
        /\ RatioIs(pb_result.value["mean_X"], 1)

\* C21 (amended): ten readings x = 1, y = 0, z = 0 give mean_X = 1 and std_X = 0,
\* rms_X = sqrt(1 + EPS) and crest_X = 1 / rms_X.
C21_ConstantBatchUpToEps ==
    (pb_pc = "done" /\ ConstantBatch(10)) =>
        /\ pb_result.outcome = "returned"
        /\ RatioIs(pb_result.value["mean_X"], 1)
        /\ RootIs(pb_result.value["std_X"], 0)
        /\ pb_result.value["rms_X"].plus_eps = 1
        /\ RatioIs(pb_result.value["rms_X"].sqrt_of, 1)
        /\ pb_result.value["crest_X"].peak = 1
        /\ pb_result.value["crest_X"].over = pb_result.value["rms_X"]

\* The features of the ten constant readings have been computed.
C21_Witness ==
    /\ pb_pc = "done"
    /\ ConstantBatch(10)
    /\ pb_result.outcome = "returned"
    /\ "rms_X" \in DOMAIN pb_result.value
\* ------------------------------------------------------------------ claims: format_csv

\* text.split(sep)
RECURSIVE split(_, _)
split(text, sep) ==
    IF \A i \in 1..Len(text) : text[i] # sep THEN <<text>>
    ELSE LET i == CHOOSE i \in 1..Len(text) :
                     text[i] = sep /\ \A j \in 1..(i - 1) : text[j] # sep
         IN  <<SubSeq(text, 1, i - 1)>> \o split(SubSeq(text, i + 1, Len(text)), sep)

\* The number written by a sequence of digits.
RECURSIVE nat_of(_)
nat_of(digits) ==
    IF digits = <<>> THEN 0
    ELSE 10 * nat_of(SubSeq(digits, 1, Len(digits) - 1))
            + (CHOOSE d \in 0..9 : Digits[d + 1] = digits[Len(digits)])

\* float(text), in tenths: an optional sign, digits, and at most one digit after a point.
parse_tenths(text) ==
    LET negative == text # <<>> /\ text[1] = "-"
        body == IF negative THEN Tail(text) ELSE text
        parts == split(body, ".")
        magnitude == IF Len(parts) = 1 THEN 10 * nat_of(parts[1])
                     ELSE 10 * nat_of(parts[1]) + nat_of(parts[2])
    IN  IF negative THEN 0 - magnitude ELSE magnitude

\* The number a feature value is, in tenths.
Tenths(value) == IF value.kind = "int" THEN 10 * value.n ELSE value.n

\* C22: for a non-empty feature vector format_csv gives exactly two lines; the first
\* is the feature names in increasing order joined by commas, the second the values
\* in the order of their names; split on commas and paired by position, the two lines
\* give back the mapping from every name to its value.
C22_CsvRoundTrip ==
    (fc_pc = "done" /\ fc_features # EmptyDict) =>
        LET lines == split(fc_payload, "\n")
        IN  /\ Len(lines) = 2
            /\ LET names == split(lines[1], ",")
                   values == split(lines[Len(lines)], ",")
               IN  /\ Len(names) = Cardinality(DOMAIN fc_features)
                   /\ Len(values) = Len(names)
                   /\ \A i, j \in 1..Len(names) : i < j => StrLess(names[i], names[j])
                   /\ {names[i] : i \in 1..Len(names)} = DOMAIN fc_features
                   /\ \A i \in 1..Len(names) :
                        /\ names[i] \in DOMAIN fc_features
                        /\ values[i] = str(fc_features[names[i]])
                        /\ parse_tenths(values[i]) = Tenths(fc_features[names[i]])

\* A payload of several features, a negative float and an int among them.
C22_Witness ==
    /\ fc_pc = "done"
    /\ Cardinality(DOMAIN fc_features) >= 2
    /\ \E k \in DOMAIN fc_features : fc_features[k].kind = "float" /\ fc_features[k].n < 0
    /\ \E k \in DOMAIN fc_features : fc_features[k].kind = "int" /\ fc_features[k].n > 9
\* Payload p has been handed to the transport: by its own publish call
\* (_publish_now was called, whatever it returned) or by the drain loop.
Attempted(p) ==
    \/ pub_payload = p /\ pub_sent # "none"
    \/ \E i \in 1..Len(drain_handed) : drain_handed[i] = p

Queued(p) == \E i \in 1..Len(tx_buffer) : tx_buffer[i] = p

InDrainHand(p) == drain_pc = "publish" /\ drain_payload = p

\* C23 (as claimed): each payload passed to publish is eventually handed to the
\* transport at least once, at once or later by the drain loop.
C23_EveryPayloadAttempted ==
    \A p \in 1..MaxPublish : (n_published >= p) ~> Attempted(p)

\* C23 (amended): a publish call that sees the connection flag set hands its payload
\* to the transport at once; a payload leaves the queue only into the hand of the
\* drain loop, which then hands it to the transport, or by eviction in a publish
\* call that found the queue full; and when the transmitter stays connected and is
\* not stopped, every payload eventually is out of the queue and out of the drain
\* loop's hand.
C23_AttemptedUnlessEvicted ==
    /\ [][pub_pc = "send" /\ pub_pc' # "send" => pub_sent' \in {"ok", "fail"}]_vars
    /\ (pub_pc = "send") ~> (pub_pc # "send")
    /\ [][\A p \in 1..MaxPublish :
            Queued(p) /\ ~Queued(p)' => InDrainHand(p)' \/ pub_pc = "evict"]_vars
    /\ [][\A p \in 1..MaxPublish :
            InDrainHand(p) /\ ~InDrainHand(p)' => Attempted(p)']_vars
    /\ \A p \in 1..MaxPublish :
         <>[](tx_connected /\ ~tx_stop) => <>[](~Queued(p) /\ ~InDrainHand(p))

\* C23 witness: a payload that publish enqueued while offline has been handed to the
\* transport by the drain loop, and a later one was sent at once by publish.
C23_Witness ==
    /\ \E p \in 1..MaxPublish : Attempted(p) /\ pub_payload # p
    /\ pub_sent = "ok"
    /\ pub_pc = "idle"
    /\ tx_buffer = <<>>

\* ------------------------------------------------------------------ claims: connection flag

\* The operations of LTETransmitter other than the two notifications.
OwnOperation ==
    \/ start \/ start_error
    \/ stop_set \/ stop_close
    \/ pub_call \/ PublishNext
    \/ DrainNext
    \/ GetterNext

\* C24: the connection flag changes only in a step of _on_connect or
\* _on_disconnect; every step of publish, the drain loop, start, stop and the two
\* status getters leaves it as it was.
C24_OnlyNotificationsWriteConnected ==
    [][/\ tx_connected' # tx_connected => on_connect \/ on_disconnect
       /\ OwnOperation => tx_connected' = tx_connected]_vars

\* C24 witness: the transmitter was started, published, drained and was stopped,
\* and get_connection_status still reports the flag the last notification set.
C24_Witness ==
    /\ app_pc = "stopped"
    /\ tx_connected
    /\ n_published >= 1
    /\ drain_handed # <<>>
    /\ "connected" \in DOMAIN tx_status
    /\ tx_status.connected

\* ------------------------------------------------------------------ claims: sensor lock

\* The threads that are inside `with self._lock`.
InSection ==
    {t \in {"loop", "main", "health"} :
        \/ t = "loop" /\ loop_pc = "append"
        \/ t = "main" /\ main_pc = "glr_locked"
        \/ t = "health" /\ health_pc = "gs_locked"}

\* C25: a thread is at its buffer access exactly while it holds the lock, so at
\* most one thread is at a buffer access; the sampling loop does not hold the lock
\* while it reads the sensor or sleeps; the buffer is appended to, copied and
\* measured only by the holder; and a consumer that holds the lock gives it back in
\* its next step, the copy or the len().
C25_ExclusiveSections ==
    /\ [](/\ InSection = (IF sensor_lock = "free" THEN {} ELSE {sensor_lock})
          /\ loop_pc \in {"while", "read", "acquire", "sleep", "done"}
               => sensor_lock # "loop")
    /\ [][/\ loop_append => sensor_lock = "loop"
          /\ glr_copy => sensor_lock = "main"
          /\ gs_len => sensor_lock = "health"
          /\ sensor_buffer' # sensor_buffer => sensor_lock = "loop"
          /\ sensor_lock = "main" /\ main_pc' # main_pc => sensor_lock' = "free"
          /\ sensor_lock = "health" /\ health_pc' # health_pc => sensor_lock' = "free"
          /\ sensor_lock = "loop" /\ loop_pc' # loop_pc => sensor_lock' = "free"]_vars

\* C25 witness: the sampling loop has a reading to insert and waits for the lock
\* that get_latest_readings holds over a buffer with readings in it.
C25_Witness ==
    /\ loop_pc = "acquire"
    /\ sensor_lock = "main"
    /\ sensor_buffer # <<>>
    /\ health_pc = "gs_return"

\* ------------------------------------------------------------------ claims: failed read

\* The step of _loop in which read_acceleration() raised or returned None.
ReadFailed == loop_pc = "read" /\ loop_pc' \notin {"read", "acquire"}

\* C26: the step of a failed read goes to the sleep and leaves the buffer, what was
\* inserted and the running flag as they were; after the sleep the loop tests its
\* flag and, while the flag is set, reads again; the loop is at its end only with
\* the flag cleared; and there are as many insertions as successful reads, less
\* the one still in hand.
C26_FailedReadIsSkipped ==
    /\ [][/\ ReadFailed => /\ loop_pc' = "sleep"
                           /\ UNCHANGED <<sensor_buffer, inserted, sensor_running, clock>>
          /\ loop_pc = "sleep" /\ loop_pc' # "sleep" => loop_pc' = "while"
          /\ loop_pc = "while" /\ loop_pc' # "while"
               => loop_pc' = (IF sensor_running THEN "read" ELSE "done")]_vars
    /\ [](/\ loop_pc = "done" => ~sensor_running
          /\ Len(inserted) = (IF loop_pc \in {"acquire", "append"} THEN clock - 1 ELSE clock))

\* C26 witness: every read so far has failed; the loop is in its sleep, still
\* running, with nothing in the buffer.
C26_Witness ==
    /\ loop_pc = "sleep"
    /\ clock = 0
    /\ sensor_buffer = <<>>
    /\ sensor_running

\* ------------------------------------------------------------------ claims: DataCollector

\* C27 (as claimed): get_latest_readings(count) returns the count most recent
\* readings of the buffer, all of them when fewer are held.
C27_ReturnsMostRecent ==
    dc_pc = "returned" =>
        dc_ret = [i \in 1..Min(dc_count, Len(dc_seen)) |->
                    to_dict(LastN(dc_seen, dc_count)[i])]

\* ------------------------------------------------------------------ claims: thread_handler

\* In the i-th thread created the target has been called, once, with the args.
CalledAsGiven(i) ==
    /\ Len(th_created) >= i
    /\ th_created[i].calls = <<[function |-> th_created[i].target,
                                args |-> th_created[i].args]>>

\* C28: a thread is created only by a start_thread call that reports the start,
\* one thread per call, under a name that was not registered and is registered by
\* the call; and in every thread created the target is eventually called, once,
\* with the arguments given.
C28_StartedThreadCallsFunction ==
    /\ [][Len(th_created') # Len(th_created) =>
            /\ th_said' = "started"
            /\ Len(th_created') = Len(th_created) + 1
            /\ th_created'[Len(th_created')].name \notin Registered
            /\ <<th_created'[Len(th_created')].name, Len(th_created')>> \in threads']_vars
    /\ \A i \in 1..MaxThreads : (Len(th_created) >= i) ~> CalledAsGiven(i)

\* C28 witness: a thread was started under the name "dummy" and its target has
\* been called with the arguments given.
C28_Witness ==
    /\ th_created # <<>>
    /\ th_created[1].name = "dummy"
    /\ th_created[1].calls = <<[function |-> "dummy_task", args |-> <<0>>]>>
    /\ "dummy" \in Registered

\* ------------------------------------------------------------------ claims: I2CDevice

\* lo <= r <= hi, for a quotient r with a positive denominator.
Within(r, lo, hi) == lo * r.den <= r.num /\ r.num <= hi * r.den

\* The raw value of axis a (1, 2, 3) in the block.
Raw(a) == int_from_bytes(SubSeq(i2c_data, 2 * a - 1, 2 * a))

\* The axis is a 13-bit value, sign-extended: what the device set to full
\* resolution, +-16 g, puts in its registers.
FullResolution(a) == i2c_data[2 * a] \in (0..15) \cup (240..255)

BinFreq(i) == rfftfreq(be_n, be_rate)[i]

\* The bins whose frequency f has lo <= f < hi.
BinsIn(lo, hi) ==
    {i \in 1..Len(be_mags) : AtLeast(BinFreq(i), lo) /\ Below(BinFreq(i), hi)}

RECURSIVE SquaresOver(_)
SquaresOver(bins) ==
    IF bins = {} THEN 0
    ELSE LET i == CHOOSE i \in bins : TRUE
         IN  be_mags[i] * be_mags[i] + SquaresOver(bins \ {i})

\* C30: the energy of band [0,10) is the sum of the squared magnitudes of exactly
\* the bins with 0 <= f < 10, and likewise for [10,50) and [50,100); the three
\* energies together are the squared magnitudes of the bins below 100 Hz, each
\* counted once, so no bin counts in two bands and a bin at 100 Hz or above
\* counts in none.
C30_BandsHalfOpenDisjoint ==
    be_pc = "done" =>
        /\ be_feats[1] = SquaresOver(BinsIn(0, 10))
        /\ be_feats[2] = SquaresOver(BinsIn(10, 50))
        /\ be_feats[3] = SquaresOver(BinsIn(50, 100))
        /\ be_feats[1] + be_feats[2] + be_feats[3] = SquaresOver(BinsIn(0, 100))
        /\ BinsIn(0, 10) \cap BinsIn(10, 50) = {}
        /\ BinsIn(10, 50) \cap BinsIn(50, 100) = {}

\* C30 witness: a spectrum with bins at 0, 50, 100, 150 and 200 Hz, all of
\* magnitude 1: the bin at 50 Hz is the only one in [50,100), the one at 0 Hz the
\* only one in [0,10), and those from 100 Hz on are in no band.
C30_Witness ==
    /\ be_pc = "done"
    /\ be_n = 8 /\ be_rate = 400
    /\ be_mags = <<1, 1, 1, 1, 1>>
    /\ be_feats = <<1, 0, 1>>

\* ------------------------------------------------------------------ claims: notifications

\* C31: a step in which the connection flag goes from unset to set is a connect
\* notification with result code 0; a connect notification with another result
\* code leaves the flag unset, whatever it was; a connect notification with code 0
\* leaves it set; and a disconnect notification leaves it unset.
C31_ConnectedOnlyByCodeZero ==
    [][/\ ~tx_connected /\ tx_connected' => on_connect_rc(0)
       /\ \A rc \in ConnectRcs \ {0} : on_connect_rc(rc) => ~tx_connected'
       /\ on_connect_rc(0) => tx_connected'
       /\ on_disconnect => ~tx_connected']_vars

\* C31 witness: a payload was queued while the transmitter was not connected, and
\* a connect notification with code 0 has since set the flag.
C31_Witness ==
    /\ tx_connected
    /\ net_loop
    /\ tx_buffer # <<>>
    /\ n_published = 1
    /\ pub_pc = "idle"
    /\ ~pub_connected

\* ------------------------------------------------------------------ claims: cycle failures

\* C32: a cycle whose process_batch fails, whose handshake fails or whose publish
\* returns (sent or queued) goes to the sleep of the send interval; from the sleep
\* the loop goes to the next fetch, which takes a new snapshot and clears what the
\* cycle left; and the loop is left only from the writing of the raw log.
C32_CycleFailureNotFatal ==
    [][/\ ml_pc = "process" /\ ml_pc' \notin {"process", "ack"} => ml_pc' = "sleep"
       /\ ml_pc = "ack" /\ ml_ack' = "False" => ml_pc' = "sleep"
       /\ ml_pc = "publish" /\ ml_pc' # "publish" => ml_pc' = "sleep"
       /\ ml_pc = "sleep" /\ ml_pc' # "sleep"
            => ml_pc' = "fetch" /\ ml_cycle' = ml_cycle + 1
       /\ ml_pc = "fetch" /\ ml_pc' # "fetch"
            => ml_pc' = "log_raw" /\ ml_ack' = "none" /\ ml_pub_calls' = 0
       /\ ml_pc' = "crashed" => ml_pc \in {"log_raw", "crashed"}]_vars

\* C32 witness: the handshake of a cycle failed, nothing was published, and the
\* loop is at the fetch of the next cycle.
C32_Witness ==
    /\ ml_pc = "fetch"
    /\ ml_cycle >= 1
    /\ ml_ack = "False"
    /\ ml_pub_calls = 0
    /\ ml_len = DATA_COLLECTION_buffer_size

\* C33 (as claimed): a get_latest_readings call leaves the buffer holding the same
\* readings in the same order.
C33_CallLeavesBuffer == [][dc_get_latest_readings => dc_buffer' = dc_buffer]_vars

\* C34 (as claimed): under every interleaving, the producer's get_nowait finds an
\* item and its put_nowait finds room, so no insertion fails; the put-back of
\* get_latest_readings finds room and its get finds an item, so the call never
\* waits.
C34_NeverFailsNeverBlocks ==
    /\ cc_raised = "none"
    /\ cl_pc = "evict" => ~queue_empty(cc_buffer)
    /\ cl_pc = "put" => ~queue_full(cc_buffer, cc_maxsize)
    /\ gl_pc = "put" => ~queue_full(cc_buffer, cc_maxsize)
    /\ gl_pc = "get" => ~queue_empty(cc_buffer)

\* ------------------------------------------------------------------ claims: raw log

\* The timestamps of the rows of the raw log.
LoggedStamps == {rl_log[i][1] : i \in 1..Len(rl_log)}

\* C35 (as claimed): no reading has two rows in the raw log, and after the log
\* writing of a cycle every reading produced so far has a row.
C35_EveryReadingLoggedOnce ==
    /\ [](\A i, j \in 1..Len(rl_log) : rl_log[i][1] = rl_log[j][1] => i = j)
    /\ [][rl_cycles' # rl_cycles => LoggedStamps' = 1..rl_clock]_vars

\* ------------------------------------------------------------------ claims: publish and drain interleaved

\* C36 (as claimed): the step of publish that removes the oldest payload is taken
\* with the queue at capacity, and the put that follows an eviction leaves the
\* queue at capacity.
C36_EvictsOnlyAtCapacity ==
    [][pub_pc = "evict" /\ Len(tx_buffer') < Len(tx_buffer)
         => Len(tx_buffer) = max_buffer_size]_vars

\* C37 (as claimed): the drain loop goes to its end only from the test of the stop
\* flag, with the flag set; a dequeue that finds the queue empty and a send that
\* fails each lead to the retry-interval sleep, and from the sleep the loop goes
\* back to its test.
C37_DrainLoopSurvives ==
    [][/\ drain_pc # "done" /\ drain_pc' = "done" => drain_pc = "while" /\ tx_stop
       /\ drain_pc = "get" /\ queue_empty(tx_buffer) /\ drain_pc' # "get"
            => drain_pc' = "sleep"
       /\ drain_pc = "publish" /\ ~publish_now(client_ok) /\ drain_pc' # "publish"
            => drain_pc' = "sleep"
       /\ drain_pc = "sleep" /\ drain_pc' # "sleep" => drain_pc' = "while"]_vars


\* ------------------------------------------------------------------ claims: publish, no duplicate and no loss

\* The payloads of a sequence occur in it once each.
NoRepeats(s) == \A i, j \in 1..Len(s) : i # j => s[i] # s[j]

\* C38: with a queue capacity of at least 1, when a publish call returns its payload
\* was either handed to the transport successfully by that call or is in the offline
\* queue, and never both; a payload that publish sent successfully is never queued nor
\* taken by the drain loop; and the drain loop hands no payload to the transport twice.
C38_NoDuplicateNoLoss ==
    /\ [][ PubReturns /\ max_buffer_size >= 1 =>
             (pub_sent' = "ok") # (pub_payload \in Range(tx_buffer')) ]_vars
    /\ [](pub_sent = "ok" =>
             /\ pub_payload \notin Range(tx_buffer)
             /\ pub_payload \notin Range(drain_handed)
             /\ ~(drain_pc = "publish" /\ drain_payload = pub_payload))
    /\ [](NoRepeats(tx_buffer) /\ NoRepeats(drain_handed))

\* C38 witness: a publish call whose immediate send failed has returned with its
\* payload queued behind an older one, after the drain loop handed a payload over.
C38_Witness ==
    /\ max_buffer_size >= 1
    /\ pub_pc = "idle"
    /\ pub_sent = "fail"
    /\ pub_ret = FALSE
    /\ Len(tx_buffer) >= 2
    /\ tx_buffer[Len(tx_buffer)] = pub_payload
    /\ drain_handed # <<>>


\* ------------------------------------------------------------------ claims: one background loop

\* The sampling threads that go on appending: in the loop body, or at the loop test
\* with the flag set.
LiveSamplers ==
    {k \in 1..MaxStarts : sl_loops[k] = "body" \/ (sl_loops[k] = "while" /\ sl_running)}

\* The drain threads that go on dequeuing: in the loop body, or at the loop test with
\* the stop flag clear.
LiveDrainLoops ==
    {k \in 1..MaxStarts : lc_loops[k] = "body" \/ (lc_loops[k] = "while" /\ ~lc_stop)}

\* C39: whatever start_collection() / shutdown() and start() / stop() calls have been
\* made, at most one sampling loop goes on appending and at most one drain loop goes on
\* dequeuing.
C39_OneLoopPerComponent ==
    /\ Cardinality(LiveSamplers) <= 1
    /\ Cardinality(LiveDrainLoops) <= 1


\* ------------------------------------------------------------------ claims: delivery order

\* The drain loop hands its payload to the transport in this step, successfully.
DrainDelivers == drain_handed' # drain_handed /\ publish_now(client_ok)

\* C40: payloads reach the transport in the order of their publish calls: the drain
\* loop's hand-overs are in publish order, and the drain loop never hands over a
\* payload after a later publish call has already sent its own payload.
C40_DeliveryInPublishOrder ==
    /\ [](\A i, j \in 1..Len(drain_handed) : i < j => drain_handed[i] < drain_handed[j])
    /\ [][ DrainDelivers => ~(pub_sent = "ok" /\ pub_payload > drain_payload) ]_vars


\* The payloads of a sequence are in the order of their publish calls.
InPublishOrder(s) == \A i, j \in 1..Len(s) : i < j => s[i] < s[j]

\* C40, as the code has it: publish order is kept among the payloads that go through
\* the offline queue. The queue holds them in publish order, the drain loop hands them
\* to the transport in publish order, and the payload in the drain loop's hand is
\* older than every payload still queued. (A payload that publish sends at once is not
\* held back for the older payloads still queued.)
C40_QueuedOrderKept ==
    /\ InPublishOrder(tx_buffer)
    /\ InPublishOrder(drain_handed)
    /\ drain_pc = "publish" =>
         /\ \A i \in 1..Len(tx_buffer) : drain_payload < tx_buffer[i]
         /\ \A i \in 1..Len(drain_handed) : drain_handed[i] < drain_payload

\* C40 witness: payload 3 was sent at once by publish while payload 2, queued offline
\* before it, is in the drain loop's hand after payload 1.
C40_Witness ==
    /\ drain_pc = "publish"
    /\ drain_payload = 2
    /\ drain_handed = <<1>>
    /\ pub_sent = "ok"
    /\ pub_payload = 3

====
